---------------------------- MODULE Spec2Model ----------------------------
(***************************************************************************)
(* Model of crlian/ai-dispatcher.                                          *)
(*                                                                         *)
(* These regions of the program are modelled, each under its own             *)
(* specification over the module's variables:                              *)
(*                                                                         *)
(*   ExecSpec       BaseDelegator.ExecuteCommand: the main goroutine, the  *)
(*                  stream-draining goroutine (parser + lineHandler), the  *)
(*                  idle-spinner goroutine, the child process and the      *)
(*                  context deadline.                                      *)
(*   BroadcastSpec  Orchestrator.Broadcast: the broadcast goroutine, one   *)
(*                  worker goroutine per available tool, the shared        *)
(*                  context, the unbuffered response channel and the       *)
(*                  consumer loop of runCouncil.                           *)
(*   RouterSpec     CostCalculator and DecisionEngine: CalculateCosts,     *)
(*                  FilterAvailable, SortEstimates and MakeDecision        *)
(*                  applied to the answers of the trackers.                *)
(*   ParserSpec     StreamParser.Parse and CodexStreamParser.Parse over    *)
(*                  the transport lines of one stream.                     *)
(*   RendererSpec   StreamingMarkdownRenderer between the parser callback  *)
(*                  and lineHandler, with its mutex.                       *)
(*   QuerySpec      Orchestrator.Query.                                    *)
(*   AbandonSpec    Orchestrator.Broadcast with a caller that may stop     *)
(*                  receiving.                                             *)
(*   PlannerSpec    extractJSON and ParsePlanResponse over worker replies. *)
(*                                                                         *)
(* Every atomic load/store and every write to the sink is its own step, so *)
(* that TLC explores the interleavings the Go scheduler can produce.       *)
(***************************************************************************)
EXTENDS Integers, Sequences, FiniteSets, TLC

(***************************************************************************)
(* Bounds                                                                  *)
(***************************************************************************)
\* number of callback lines the child process can make the parser deliver
MaxLines == 2

\* number of ticks the spinner ticker can fire during one execution
MaxTicks == 2

VARIABLES
    \* ---- ExecuteCommand ----
    mpc,            \* main goroutine position in ExecuteCommand
    spc,            \* stream goroutine position (Parse / lineHandler)
    tpc,            \* spinner goroutine position
    ectx,           \* context created by WithTimeout: "live" | "expired"
    proc,           \* child process: "none" | "running" | "exited0" | "exitedN" | "killed"
    hangs,          \* the child never exits on its own
    exitedLive,     \* the child exited on its own while the context was still live
    spinnerShown,   \* atomic.Bool spinnerShown
    spinnerIdx,     \* atomic.Int32 spinnerIdx
    idle,           \* now - lastActivityTime > 2s
    tickPending,    \* a tick is buffered in spinnerTicker.C
    tickerStopped,  \* spinnerTicker.Stop() has been called
    ticks,          \* ticks fired so far
    nlines,         \* callback lines delivered so far
    parseErr,       \* parser.Parse returned a non-nil error
    sink,           \* writes made to os.Stderr, in order
    result,         \* *DelegationResult returned by ExecuteCommand
    retErr,         \* error returned by ExecuteCommand
    \* ---- Orchestrator.Broadcast ----
    useMocks,       \* Orchestrator.useMocks
    availableTools, \* Orchestrator.availableTools: tool -> "yes" | "no" | "absent"
    history,        \* Session.History, as the sequence of the messages' From
    prompt,         \* the prompt built once at broadcast start (its context lines)
    bpc,            \* broadcast goroutine position
    bi,             \* index of the tool the launch loop is at
    bctx,           \* shared context: "live" | "expired" | "cancelled"
    wpc,            \* worker goroutine position, per tool
    whangs,         \* per tool: the worker's subprocess never exits on its own
    resp,           \* per tool: the Response the worker goroutine holds
    qctx,           \* per tool: state of the shared context when Query returned
    hload,          \* per tool: the value of s.History read by AddMessage
    chClosed,       \* responseChan has been closed
    received,       \* Responses received by the consumer, in order
    cpc,            \* consumer (runCouncil) position
    \* ---- DecisionEngine / CostCalculator ----
    trackers,       \* DecisionEngine.trackers: what each tracker answers
    tokens,         \* analysis.Tokens
    forceTool,      \* MakeDecision's forceTool argument, as its characters
    rpc,            \* which router operation has been applied
    estimates,      \* the estimates returned by CalculateCosts
    sorted,         \* the slice returned by SortEstimates
    filtered,       \* the slice returned by FilterAvailable
    decision,       \* *RoutingDecision returned by MakeDecision
    decErr,         \* error returned by MakeDecision / CalculateCosts
    \* ---- StreamParser / CodexStreamParser ----
    pvariant,       \* which parser reads the stream: "claude" | "codex"
    ppc,            \* position of Parse: "idle" | "scanning" | "done"
    nscanned,       \* transport lines the scanner has delivered so far
    pline,          \* the transport line delivered last
    lineBuffer,     \* sp.lineBuffer, as its characters
    fullOutput,     \* fullOutput, as its characters
    onLineCalls,    \* the arguments of the calls of sp.onLine, in order
    pRet,           \* the string returned by Parse
    pErr,           \* the error returned by Parse
    \* ---- Orchestrator.Query ----
    qtool,          \* the tool argument of the last Query
    qresp,          \* the Response returned by the last Query
    qinvoked,       \* the last Query called delegator.Query
    lastTool,       \* Session.LastTool
    nqueries,       \* calls of Query so far
    \* ---- StreamingMarkdownRenderer on the streaming path ----
    smrRenderer,    \* smr.renderer != nil
    smrMu,          \* smr.mu: "free" | "held"
    smrBuffer,      \* smr.buffer, as its characters
    smrClosed,      \* smr.closed
    onLineQueue,    \* the onLine calls the method in progress has still to make
    smrCall,        \* the renderer method in progress: "write" | "flush" | "close"
    mpos,           \* stream goroutine position around the renderer
    nwrites,        \* calls of renderer.Write so far
    stderrLines,    \* the lines lineHandler has written to os.Stderr, in order
    \* ---- planner: extractJSON / ParsePlanResponse ----
    planTool,       \* the tool argument of ParsePlanResponse
    response,       \* the worker's reply, as its tokens
    plpc,           \* which planner function has been applied
    jsonStr,        \* the string returned by extractJSON
    plan,           \* *Plan returned by ParsePlanResponse
    planErr         \* error returned by ParsePlanResponse

execVars == <<mpc, spc, tpc, ectx, proc, hangs, exitedLive, spinnerShown,
              spinnerIdx, idle, tickPending, tickerStopped, ticks, nlines,
              parseErr, sink, result, retErr>>

bvars == <<useMocks, availableTools, history, prompt, bpc, bi, bctx, wpc, whangs,
           resp, qctx, hload, chClosed, received, cpc>>

rvars == <<trackers, tokens, forceTool, rpc, estimates, sorted, filtered, decision,
          decErr>>

pvars == <<pvariant, ppc, nscanned, pline, lineBuffer, fullOutput, onLineCalls, pRet,
          pErr>>

qvars == <<qtool, qresp, qinvoked, lastTool, nqueries>>

mvars == <<smrRenderer, smrMu, smrBuffer, smrClosed, onLineQueue, smrCall, mpos,
          nwrites, stderrLines>>

plvars == <<planTool, response, plpc, jsonStr, plan, planErr>>

vars == <<execVars, bvars, rvars, pvars, qvars, mvars, plvars>>

(***************************************************************************)
(* ExecuteCommand                                                          *)
(***************************************************************************)
\* one write to os.Stderr
Tok(who, kind) == [who |-> who, kind |-> kind]

NilResult == [isNil |-> TRUE, Success |-> FALSE, ExitCode |-> 0, Error |-> "none"]

ExecInitial ==
    /\ mpc = "start"
    /\ spc = "idle"
    /\ tpc = "idle"
    /\ ectx = "live"
    /\ proc = "none"
    /\ hangs = FALSE
    /\ exitedLive = FALSE
    /\ spinnerShown = FALSE
    /\ spinnerIdx = 0
    /\ idle = FALSE
    /\ tickPending = FALSE
    /\ tickerStopped = FALSE
    /\ ticks = 0
    /\ nlines = 0
    /\ parseErr = FALSE
    /\ sink = << >>
    /\ result = NilResult
    /\ retErr = "none"

\* delegator.go:232-240  exit code derived from cmd.Wait's error
ExitCodeOf(p) ==
    CASE p = "exited0" -> 0
      [] p = "exitedN" -> 1
      [] OTHER         -> -1

\* the result is built as if a child that ended with an ExitError had succeeded
BuildResult_ExitErrorIsSuccess(p, ctxState) ==
    LET cmdErr == p # "exited0" IN
    [isNil    |-> FALSE,
     Success  |-> p # "killed",
     ExitCode |-> ExitCodeOf(p),
     Error    |-> IF cmdErr
                  THEN (IF ctxState = "expired" THEN "timeout" ELSE "cmd")
                  ELSE "none"]

\* delegator.go:258-274  result built after cmd.Wait; the context is inspected
\* only when cmd.Wait returned an error
BuildResult(p, ctxState) ==
    LET cmdErr == p # "exited0" IN
    [isNil    |-> FALSE,
     Success  |-> (~cmdErr) /\ ExitCodeOf(p) = 0,
     ExitCode |-> ExitCodeOf(p),
     Error    |-> IF cmdErr
                  THEN (IF ctxState = "expired" THEN "timeout" ELSE "cmd")
                  ELSE "none"]

\* ---- main goroutine ----------------------------------------------------

\* delegator.go:100-135,193  context, cmd.Start, goroutines and ticker started
StartCommand ==
    /\ mpc = "start"
    /\ \/ \* cmd.Start fails (executable missing, or the context is already done)
          /\ retErr' = "start"
          /\ mpc' = "done"
          /\ UNCHANGED <<spc, tpc, proc, hangs>>
       \/ /\ ectx = "live"
          /\ proc' = "running"
          /\ hangs' \in BOOLEAN
          /\ spc' = "read"
          /\ tpc' = "wait"
          /\ mpc' = "wgwait"
          /\ UNCHANGED retErr
    /\ UNCHANGED <<ectx, exitedLive, spinnerShown, spinnerIdx, idle, tickPending,
                   tickerStopped, ticks, nlines, parseErr, sink, result>>
    /\ UNCHANGED <<bvars, rvars, pvars, qvars, mvars, plvars>>

\* delegator.go:220  wg.Wait()
WaitStream ==
    /\ mpc = "wgwait"
    /\ spc = "done"
    /\ mpc' = "stop"
    /\ UNCHANGED <<spc, tpc, ectx, proc, hangs, exitedLive, spinnerShown, spinnerIdx,
                   idle, tickPending, tickerStopped, ticks, nlines, parseErr, sink,
                   result, retErr>>
    /\ UNCHANGED <<bvars, rvars, pvars, qvars, mvars, plvars>>

\* delegator.go:223  spinnerTicker.Stop(); a tick already buffered stays buffered
StopTicker ==
    /\ mpc = "stop"
    /\ tickerStopped' = TRUE
    /\ mpc' = "cleanLoad"
    /\ UNCHANGED <<spc, tpc, ectx, proc, hangs, exitedLive, spinnerShown, spinnerIdx,
                   idle, tickPending, ticks, nlines, parseErr, sink, result, retErr>>
    /\ UNCHANGED <<bvars, rvars, pvars, qvars, mvars, plvars>>

\* delegator.go:224  if spinnerShown.Load()
CleanupLoad ==
    /\ mpc = "cleanLoad"
    /\ mpc' = IF spinnerShown THEN "cleanErase" ELSE "cmdwait"
    /\ UNCHANGED <<spc, tpc, ectx, proc, hangs, exitedLive, spinnerShown, spinnerIdx,
                   idle, tickPending, tickerStopped, ticks, nlines, parseErr, sink,
                   result, retErr>>
    /\ UNCHANGED <<bvars, rvars, pvars, qvars, mvars, plvars>>

\* delegator.go:225  fmt.Fprint(os.Stderr, "\b\b")
CleanupErase ==
    /\ mpc = "cleanErase"
    /\ sink' = Append(sink, Tok("main", "erase"))
    /\ mpc' = "cmdwait"
    /\ UNCHANGED <<spc, tpc, ectx, proc, hangs, exitedLive, spinnerShown, spinnerIdx,
                   idle, tickPending, tickerStopped, ticks, nlines, parseErr, result,
                   retErr>>
    /\ UNCHANGED <<bvars, rvars, pvars, qvars, mvars, plvars>>

\* delegator.go:229  cmd.Wait() returns once the child has exited or been killed
WaitCommand ==
    /\ mpc = "cmdwait"
    /\ proc \in {"exited0", "exitedN", "killed"}
    /\ mpc' = "build"
    /\ UNCHANGED <<spc, tpc, ectx, proc, hangs, exitedLive, spinnerShown, spinnerIdx,
                   idle, tickPending, tickerStopped, ticks, nlines, parseErr, sink,
                   result, retErr>>
    /\ UNCHANGED <<bvars, rvars, pvars, qvars, mvars, plvars>>

\* delegator.go:250-276  parse error wins over the result; otherwise the result
\* is built and ctx.Err() is read at that moment
ReturnResult ==
    /\ mpc = "build"
    /\ IF parseErr
       THEN /\ retErr' = "parse"
            /\ UNCHANGED result
       ELSE /\ result' = BuildResult(proc, ectx)
            /\ UNCHANGED retErr
    /\ mpc' = "done"
    /\ UNCHANGED <<spc, tpc, ectx, proc, hangs, exitedLive, spinnerShown, spinnerIdx,
                   idle, tickPending, tickerStopped, ticks, nlines, parseErr, sink>>
    /\ UNCHANGED <<bvars, rvars, pvars, qvars, mvars, plvars>>

\* ---- stream goroutine: parser.Parse and lineHandler ---------------------

\* stream.go:33-88  scanner.Scan() yields a transport line whose text completes
\* a logical line, and the callback is invoked with it (delegator.go:143-146:
\* an empty line returns at once)
ReadLine ==
    /\ spc = "read"
    /\ proc = "running"
    /\ nlines < MaxLines
    /\ nlines' = nlines + 1
    /\ \E empty \in BOOLEAN : spc' = IF empty THEN "read" ELSE "lhLoad"
    /\ UNCHANGED <<mpc, tpc, ectx, proc, hangs, exitedLive, spinnerShown, spinnerIdx,
                   idle, tickPending, tickerStopped, ticks, parseErr, sink, result,
                   retErr>>
    /\ UNCHANGED <<bvars, rvars, pvars, qvars, mvars, plvars>>

\* stream.go:90-101, delegator.go:141,184  EOF once the child is gone: Parse
\* returns without error and the goroutine ends (wg.Done)
ReadEOF ==
    /\ spc = "read"
    /\ proc \in {"exited0", "exitedN", "killed"}
    /\ spc' = "done"
    /\ UNCHANGED <<mpc, tpc, ectx, proc, hangs, exitedLive, spinnerShown, spinnerIdx,
                   idle, tickPending, tickerStopped, ticks, nlines, parseErr, sink,
                   result, retErr>>
    /\ UNCHANGED <<bvars, rvars, pvars, qvars, mvars, plvars>>

\* stream.go:90-92  scanner.Err() is non-nil (read error, or a transport line
\* longer than the scanner's buffer): Parse returns the error
ReadError ==
    /\ spc = "read"
    /\ parseErr' = TRUE
    /\ spc' = "done"
    /\ UNCHANGED <<mpc, tpc, ectx, proc, hangs, exitedLive, spinnerShown, spinnerIdx,
                   idle, tickPending, tickerStopped, ticks, nlines, sink, result,
                   retErr>>
    /\ UNCHANGED <<bvars, rvars, pvars, qvars, mvars, plvars>>

\* delegator.go:148  if spinnerShown.Load()
LineLoad ==
    /\ spc = "lhLoad"
    /\ spc' = IF spinnerShown THEN "lhErase" ELSE "lhLine"
    /\ UNCHANGED <<mpc, tpc, ectx, proc, hangs, exitedLive, spinnerShown, spinnerIdx,
                   idle, tickPending, tickerStopped, ticks, nlines, parseErr, sink,
                   result, retErr>>
    /\ UNCHANGED <<bvars, rvars, pvars, qvars, mvars, plvars>>

\* delegator.go:149  fmt.Fprint(os.Stderr, "\b\b")
LineErase ==
    /\ spc = "lhErase"
    /\ sink' = Append(sink, Tok("line", "erase"))
    /\ spc' = "lhClear"
    /\ UNCHANGED <<mpc, tpc, ectx, proc, hangs, exitedLive, spinnerShown, spinnerIdx,
                   idle, tickPending, tickerStopped, ticks, nlines, parseErr, result,
                   retErr>>
    /\ UNCHANGED <<bvars, rvars, pvars, qvars, mvars, plvars>>

\* delegator.go:150  spinnerShown.Store(false)
LineClear ==
    /\ spc = "lhClear"
    /\ spinnerShown' = FALSE
    /\ spc' = "lhLine"
    /\ UNCHANGED <<mpc, tpc, ectx, proc, hangs, exitedLive, spinnerIdx, idle,
                   tickPending, tickerStopped, ticks, nlines, parseErr, sink, result,
                   retErr>>
    /\ UNCHANGED <<bvars, rvars, pvars, qvars, mvars, plvars>>

\* delegator.go:152  fmt.Fprint(os.Stderr, line)
LineWrite ==
    /\ spc = "lhLine"
    /\ sink' = Append(sink, Tok("line", "text"))
    /\ spc' = "lhNl"
    /\ UNCHANGED <<mpc, tpc, ectx, proc, hangs, exitedLive, spinnerShown, spinnerIdx,
                   idle, tickPending, tickerStopped, ticks, nlines, parseErr, result,
                   retErr>>
    /\ UNCHANGED <<bvars, rvars, pvars, qvars, mvars, plvars>>

\* delegator.go:153-154  fmt.Fprint(os.Stderr, "\n"); os.Stderr.Sync()
LineNewline ==
    /\ spc = "lhNl"
    /\ sink' = Append(sink, Tok("line", "nl"))
    /\ spc' = "lhStamp"
    /\ UNCHANGED <<mpc, tpc, ectx, proc, hangs, exitedLive, spinnerShown, spinnerIdx,
                   idle, tickPending, tickerStopped, ticks, nlines, parseErr, result,
                   retErr>>
    /\ UNCHANGED <<bvars, rvars, pvars, qvars, mvars, plvars>>

\* delegator.go:155  lastActivityTime.Store(now)
LineStamp ==
    /\ spc = "lhStamp"
    /\ idle' = FALSE
    /\ spc' = "read"
    /\ UNCHANGED <<mpc, tpc, ectx, proc, hangs, exitedLive, spinnerShown, spinnerIdx,
                   tickPending, tickerStopped, ticks, nlines, parseErr, sink, result,
                   retErr>>
    /\ UNCHANGED <<bvars, rvars, pvars, qvars, mvars, plvars>>

\* ---- spinner goroutine -------------------------------------------------

\* delegator.go:193  the ticker fires every 300ms into a channel of capacity 1
TickFire ==
    /\ tpc # "idle"
    /\ ~tickerStopped
    /\ ~tickPending
    /\ ticks < MaxTicks
    /\ tickPending' = TRUE
    /\ ticks' = ticks + 1
    /\ UNCHANGED <<mpc, spc, tpc, ectx, proc, hangs, exitedLive, spinnerShown,
                   spinnerIdx, idle, tickerStopped, nlines, parseErr, sink, result,
                   retErr>>
    /\ UNCHANGED <<bvars, rvars, pvars, qvars, mvars, plvars>>

\* delegator.go:197-203  a tick is received; now - lastActivityTime.Load() is
\* compared with 2s
TickRecv ==
    /\ tpc = "wait"
    /\ tickPending
    /\ tickPending' = FALSE
    /\ tpc' = IF idle THEN "spLoad" ELSE "wait"
    /\ UNCHANGED <<mpc, spc, ectx, proc, hangs, exitedLive, spinnerShown, spinnerIdx,
                   idle, tickerStopped, ticks, nlines, parseErr, sink, result, retErr>>
    /\ UNCHANGED <<bvars, rvars, pvars, qvars, mvars, plvars>>

\* delegator.go:204  if !spinnerShown.Load()
SpinLoad ==
    /\ tpc = "spLoad"
    /\ tpc' = IF spinnerShown THEN "spUpdate" ELSE "spSet"
    /\ UNCHANGED <<mpc, spc, ectx, proc, hangs, exitedLive, spinnerShown, spinnerIdx,
                   idle, tickPending, tickerStopped, ticks, nlines, parseErr, sink,
                   result, retErr>>
    /\ UNCHANGED <<bvars, rvars, pvars, qvars, mvars, plvars>>

\* delegator.go:206  spinnerShown.Store(true)
SpinSet ==
    /\ tpc = "spSet"
    /\ spinnerShown' = TRUE
    /\ tpc' = "spDraw"
    /\ UNCHANGED <<mpc, spc, ectx, proc, hangs, exitedLive, spinnerIdx, idle,
                   tickPending, tickerStopped, ticks, nlines, parseErr, sink, result,
                   retErr>>
    /\ UNCHANGED <<bvars, rvars, pvars, qvars, mvars, plvars>>

\* delegator.go:207-208,214  fmt.Fprintf(os.Stderr, " %s", frame); spinnerIdx.Add(1)
SpinDraw ==
    /\ tpc = "spDraw"
    /\ sink' = Append(sink, Tok("spinner", "draw"))
    /\ spinnerIdx' = spinnerIdx + 1
    /\ tpc' = "wait"
    /\ UNCHANGED <<mpc, spc, ectx, proc, hangs, exitedLive, spinnerShown, idle,
                   tickPending, tickerStopped, ticks, nlines, parseErr, result, retErr>>
    /\ UNCHANGED <<bvars, rvars, pvars, qvars, mvars, plvars>>

\* delegator.go:211-214  fmt.Fprintf(os.Stderr, "\b%s", frame); spinnerIdx.Add(1)
SpinUpdate ==
    /\ tpc = "spUpdate"
    /\ sink' = Append(sink, Tok("spinner", "update"))
    /\ spinnerIdx' = spinnerIdx + 1
    /\ tpc' = "wait"
    /\ UNCHANGED <<mpc, spc, ectx, proc, hangs, exitedLive, spinnerShown, idle,
                   tickPending, tickerStopped, ticks, nlines, parseErr, result, retErr>>
    /\ UNCHANGED <<bvars, rvars, pvars, qvars, mvars, plvars>>

\* ---- environment: time, the child process, the deadline ------------------

\* delegator.go:198-203  more than 2s have passed since lastActivityTime
IdleElapse ==
    /\ mpc \in {"wgwait", "stop", "cleanLoad", "cleanErase", "cmdwait", "build"}
    /\ ~idle
    /\ idle' = TRUE
    /\ UNCHANGED <<mpc, spc, tpc, ectx, proc, hangs, exitedLive, spinnerShown,
                   spinnerIdx, tickPending, tickerStopped, ticks, nlines, parseErr,
                   sink, result, retErr>>
    /\ UNCHANGED <<bvars, rvars, pvars, qvars, mvars, plvars>>

\* delegator.go:102  the deadline of context.WithTimeout(ctx, bd.timeout) passes
Deadline ==
    /\ mpc # "done"
    /\ ectx = "live"
    /\ ectx' = "expired"
    /\ UNCHANGED <<mpc, spc, tpc, proc, hangs, exitedLive, spinnerShown, spinnerIdx,
                   idle, tickPending, tickerStopped, ticks, nlines, parseErr, sink,
                   result, retErr>>
    /\ UNCHANGED <<bvars, rvars, pvars, qvars, mvars, plvars>>

\* the child exits on its own, with status 0 or with a non-zero status
ProcExit ==
    /\ proc = "running"
    /\ ~hangs
    /\ proc' \in {"exited0", "exitedN"}
    /\ exitedLive' = (ectx = "live")
    /\ UNCHANGED <<mpc, spc, tpc, ectx, hangs, spinnerShown, spinnerIdx, idle,
                   tickPending, tickerStopped, ticks, nlines, parseErr, sink, result,
                   retErr>>
    /\ UNCHANGED <<bvars, rvars, pvars, qvars, mvars, plvars>>

\* delegator.go:106  exec.CommandContext kills the child once the context is done
ProcKill ==
    /\ proc = "running"
    /\ ectx = "expired"
    /\ proc' = "killed"
    /\ UNCHANGED <<mpc, spc, tpc, ectx, hangs, exitedLive, spinnerShown, spinnerIdx,
                   idle, tickPending, tickerStopped, ticks, nlines, parseErr, sink,
                   result, retErr>>
    /\ UNCHANGED <<bvars, rvars, pvars, qvars, mvars, plvars>>

NextExec ==
    \/ StartCommand
    \/ WaitStream
    \/ StopTicker
    \/ CleanupLoad
    \/ CleanupErase
    \/ WaitCommand
    \/ ReturnResult
    \/ ReadLine
    \/ ReadEOF
    \/ ReadError
    \/ LineLoad
    \/ LineErase
    \/ LineClear
    \/ LineWrite
    \/ LineNewline
    \/ LineStamp
    \/ TickFire
    \/ TickRecv
    \/ SpinLoad
    \/ SpinSet
    \/ SpinDraw
    \/ SpinUpdate
    \/ IdleElapse
    \/ Deadline
    \/ ProcExit
    \/ ProcKill


(***************************************************************************)
(* Orchestrator.Broadcast                                                  *)
(***************************************************************************)
\* part_009:166  toolNames := []string{"claude", "codex", "opencode"}
ToolNames == <<"claude", "codex", "opencode">>

Tools == {ToolNames[i] : i \in 1..Len(ToolNames)}

\* part_009:47-68  NewOrchestrator maps every delegator of GetAllDelegators
Delegators == {"claude", "codex", "opencode"}

\* part_009:17
maxHistoryContext == 3

\* histories the session can hold when runCouncil calls Broadcast: the user
\* message has just been appended (council.go:316)
InitialHistories == { <<"user">>, <<"user", "claude", "codex", "user">> }

\* maps SetAvailableTools can have installed (part_009:97-99): every tool marked
\* available or not, or no entry at all
AvailabilityMaps ==
    [Tools -> {"yes", "no"}] \cup {[t \in Tools |-> "absent"]}

NoResponse == [Tool |-> "none", Content |-> "none", Error |-> FALSE]

\* part_009:116-128  the last maxHistoryContext messages, without a trailing
\* user message
BuildCouncilPrompt(h) ==
    LET startIdx == IF Len(h) - maxHistoryContext < 0 THEN 0
                    ELSE Len(h) - maxHistoryContext
        relevant == SubSeq(h, startIdx + 1, Len(h))
    IN  IF Len(relevant) > 0 /\ relevant[Len(relevant)] = "user"
        THEN SubSeq(relevant, 1, Len(relevant) - 1)
        ELSE relevant

\* delegator.go:281-342  ExecuteCommandSimple for a subprocess outcome
\*   "ok" exit 0 | "exitN" non-zero exit | "spawn" cmd.Run could not start it
\*   | "killed" killed by the context
\* The returned error is nil in every case.
ExecuteCommandSimple(outcome, ctxState) ==
    LET cmdErr   == outcome # "ok"
        exitCode == CASE outcome = "ok"    -> 0
                      [] outcome = "exitN" -> 1
                      [] OTHER             -> -1
    IN  [result |-> [isNil    |-> FALSE,
                     Success  |-> (~cmdErr) /\ exitCode = 0,
                     ExitCode |-> exitCode,
                     Error    |-> IF cmdErr
                                  THEN (IF ctxState = "expired" THEN "timeout"
                                        ELSE "cmd")
                                  ELSE "none"],
         err    |-> FALSE]

\* claude_code.go:52-74, stream.go:188-218  Query returns result.Output, and an
\* error only if ExecuteCommandSimple returned one; the content is named after
\* the subprocess outcome that produced the output
DelegatorQuery(outcome, ctxState) ==
    LET r == ExecuteCommandSimple(outcome, ctxState) IN
    IF r.err THEN [content |-> "none", err |-> TRUE]
    ELSE [content |-> outcome, err |-> FALSE]

\* part_009:189-201  the Response built from Query's return values
MakeResponse(name, q) == [Tool |-> name, Content |-> q.content, Error |-> q.err]

\* part_009:180  if available, ok := o.availableTools[toolName]; !ok || !available
IsAvailable(t) == availableTools[t] = "yes"

\* the channel is closed without waiting for the worker goroutines
WgDone_NoWait == TRUE

\* part_009:207  wg.Wait(): every launched worker goroutine has called wg.Done
WgDone == \A t \in Tools : wpc[t] \in {"none", "done"}

\* the query runs under a context that never expires with the shared one
QueryAborts_IgnoresContext(ctxState) == FALSE

\* part_009:189, delegator.go:283-287  the query's subprocess is killed when the
\* context handed to Query is done
QueryAborts(ctxState) == ctxState = "expired"

\* Responses are held back until no query is in flight any more
SendReady_Batched(t) == wpc[t] = "send" /\ \A u \in Tools : wpc[u] # "query"

\* part_009:191,197  the worker goroutine sends as soon as Query has returned
SendReady(t) == wpc[t] = "send"

\* the zero CostEstimate
NoEstimate ==
    [Tool |-> "", EstimatedCost |-> 0, EstimatedTokens |-> 0,
     AvailablePercent |-> 0, WillExceedLimit |-> FALSE, IsAvailable |-> FALSE]

\* no RoutingDecision
NilDecision ==
    [isNil |-> TRUE, SelectedTool |-> "", SelectedCost |-> NoEstimate,
     Alternatives |-> << >>, WasForced |-> FALSE, Reason |-> << >>]

\* no transport line
NoLine ==
    [kind |-> "none", type |-> "", sub |-> "", text |-> << >>, items |-> << >>,
     agg |-> << >>, long |-> FALSE]

\* no parser at work
ParserQuiescent ==
    /\ pvariant = "none"
    /\ ppc = "idle"
    /\ nscanned = 0
    /\ pline = NoLine
    /\ lineBuffer = << >>
    /\ fullOutput = << >>
    /\ onLineCalls = << >>
    /\ pRet = << >>
    /\ pErr = "none"

\* no Query has been made
QueryQuiescent ==
    /\ qtool = "none"
    /\ qresp = NoResponse
    /\ qinvoked = FALSE
    /\ lastTool = ""
    /\ nqueries = 0

\* no Plan
NilPlan == [isNil |-> TRUE, Tool |-> "", Task |-> "", Summary |-> << >>, Files |-> << >>]

\* no plan being parsed
PlannerQuiescent ==
    /\ planTool = ""
    /\ response = << >>
    /\ plpc = "idle"
    /\ jsonStr = << >>
    /\ plan = NilPlan
    /\ planErr = "none"

\* no renderer in use
RendererQuiescent ==
    /\ smrRenderer = FALSE
    /\ smrMu = "free"
    /\ smrBuffer = << >>
    /\ smrClosed = FALSE
    /\ onLineQueue = << >>
    /\ smrCall = "none"
    /\ mpos = "idle"
    /\ nwrites = 0
    /\ stderrLines = << >>

\* no router operation in progress
RouterQuiescent ==
    /\ trackers = << >>
    /\ tokens = 0
    /\ forceTool = << >>
    /\ rpc = "idle"
    /\ estimates = << >>
    /\ sorted = << >>
    /\ filtered = << >>
    /\ decision = NilDecision
    /\ decErr = "none"

BroadcastQuiescent ==
    /\ useMocks = FALSE
    /\ availableTools = [t \in Tools |-> "absent"]
    /\ history = << >>
    /\ prompt = << >>
    /\ bpc = "idle"
    /\ bi = 1
    /\ bctx = "live"
    /\ wpc = [t \in Tools |-> "none"]
    /\ whangs = [t \in Tools |-> FALSE]
    /\ resp = [t \in Tools |-> NoResponse]
    /\ qctx = [t \in Tools |-> "none"]
    /\ hload = [t \in Tools |-> << >>]
    /\ chClosed = FALSE
    /\ received = << >>
    /\ cpc = "idle"

\* state right after runCouncil has called orch.Broadcast(input)
InitBroadcast ==
    /\ ExecInitial
    /\ useMocks \in BOOLEAN
    /\ availableTools \in AvailabilityMaps
    /\ history \in InitialHistories
    /\ prompt = << >>
    /\ bpc = "start"
    /\ bi = 1
    /\ bctx = "live"
    /\ wpc = [t \in Tools |-> "none"]
    /\ whangs = [t \in Tools |-> FALSE]
    /\ resp = [t \in Tools |-> NoResponse]
    /\ qctx = [t \in Tools |-> "none"]
    /\ hload = [t \in Tools |-> << >>]
    /\ chClosed = FALSE
    /\ received = << >>
    /\ cpc = "recv"
    /\ RouterQuiescent
    /\ ParserQuiescent
    /\ QueryQuiescent
    /\ RendererQuiescent
    /\ PlannerQuiescent

InitExec ==
    /\ ExecInitial
    /\ BroadcastQuiescent
    /\ RouterQuiescent
    /\ ParserQuiescent
    /\ QueryQuiescent
    /\ RendererQuiescent
    /\ PlannerQuiescent

\* ---- broadcast goroutine -------------------------------------------------

\* part_009:158-163  context with timeout, prompt built from the history
BuildPrompt ==
    /\ bpc = "start"
    /\ prompt' = BuildCouncilPrompt(history)
    /\ bpc' = "loop"
    /\ UNCHANGED <<useMocks, availableTools, history, bi, bctx, wpc, whangs, resp,
                   qctx, hload, chClosed, received, cpc>>
    /\ UNCHANGED <<execVars, rvars, pvars, qvars, mvars, plvars>>

AfterIteration == IF bi = Len(ToolNames) THEN "wait" ELSE "loop"

\* part_009:168-174  mock mode: the broadcast goroutine itself sends the
\* Response (unbuffered channel: the consumer receives in the same step)
MockSend ==
    /\ bpc = "loop"
    /\ useMocks
    /\ cpc = "recv"
    /\ received' = Append(received,
                     [Tool |-> ToolNames[bi], Content |-> "mock", Error |-> FALSE])
    /\ bpc' = "mockAdd"
    /\ UNCHANGED <<useMocks, availableTools, history, prompt, bi, bctx, wpc, whangs,
                   resp, qctx, hload, chClosed, cpc>>
    /\ UNCHANGED <<execVars, rvars, pvars, qvars, mvars, plvars>>

\* part_009:175-176  o.session.AddMessage(toolName, response); continue
MockAdd ==
    /\ bpc = "mockAdd"
    /\ history' = Append(history, ToolNames[bi])
    /\ bpc' = AfterIteration
    /\ bi' = IF bi = Len(ToolNames) THEN bi ELSE bi + 1
    /\ UNCHANGED <<useMocks, availableTools, prompt, bctx, wpc, whangs, resp, qctx,
                   hload, chClosed, received, cpc>>
    /\ UNCHANGED <<execVars, rvars, pvars, qvars, mvars, plvars>>

\* part_009:180-182  an unavailable tool is skipped
SkipTool ==
    /\ bpc = "loop"
    /\ ~useMocks
    /\ ~IsAvailable(ToolNames[bi])
    /\ bpc' = AfterIteration
    /\ bi' = IF bi = Len(ToolNames) THEN bi ELSE bi + 1
    /\ UNCHANGED <<useMocks, availableTools, history, prompt, bctx, wpc, whangs, resp,
                   qctx, hload, chClosed, received, cpc>>
    /\ UNCHANGED <<execVars, rvars, pvars, qvars, mvars, plvars>>

\* part_009:185-188  wg.Add(1); go func(name): the goroutine queries only a tool
\* that has a delegator
LaunchWorker ==
    /\ bpc = "loop"
    /\ ~useMocks
    /\ IsAvailable(ToolNames[bi])
    /\ \E h \in BOOLEAN :
          /\ wpc' = [wpc EXCEPT ![ToolNames[bi]] =
                        IF ToolNames[bi] \in Delegators THEN "query" ELSE "done"]
          /\ whangs' = [whangs EXCEPT ![ToolNames[bi]] = h]
    /\ bpc' = AfterIteration
    /\ bi' = IF bi = Len(ToolNames) THEN bi ELSE bi + 1
    /\ UNCHANGED <<useMocks, availableTools, history, prompt, bctx, resp, qctx, hload,
                   chClosed, received, cpc>>
    /\ UNCHANGED <<execVars, rvars, pvars, qvars, mvars, plvars>>

\* part_009:207  wg.Wait()
WaitWorkers ==
    /\ bpc = "wait"
    /\ WgDone
    /\ bpc' = "cancel"
    /\ UNCHANGED <<useMocks, availableTools, history, prompt, bi, bctx, wpc, whangs,
                   resp, qctx, hload, chClosed, received, cpc>>
    /\ UNCHANGED <<execVars, rvars, pvars, qvars, mvars, plvars>>

\* part_009:160  defer cancel()
CancelContext ==
    /\ bpc = "cancel"
    /\ bctx' = "cancelled"
    /\ bpc' = "close"
    /\ UNCHANGED <<useMocks, availableTools, history, prompt, bi, wpc, whangs, resp,
                   qctx, hload, chClosed, received, cpc>>
    /\ UNCHANGED <<execVars, rvars, pvars, qvars, mvars, plvars>>

\* part_009:156  defer close(responseChan)
CloseChannel ==
    /\ bpc = "close"
    /\ chClosed' = TRUE
    /\ bpc' = "closed"
    /\ UNCHANGED <<useMocks, availableTools, history, prompt, bi, bctx, wpc, whangs,
                   resp, qctx, hload, received, cpc>>
    /\ UNCHANGED <<execVars, rvars, pvars, qvars, mvars, plvars>>

\* part_009:159  the shared context's deadline (o.timeout) passes
ContextExpire ==
    /\ bpc \in {"loop", "mockAdd", "wait"}
    /\ bctx = "live"
    /\ bctx' = "expired"
    /\ UNCHANGED <<useMocks, availableTools, history, prompt, bpc, bi, wpc, whangs,
                   resp, qctx, hload, chClosed, received, cpc>>
    /\ UNCHANGED <<execVars, rvars, pvars, qvars, mvars, plvars>>

\* ---- worker goroutines ---------------------------------------------------

\* part_009:189  delegator.Query returns: the subprocess ended on its own
QueryReturn(t) ==
    /\ wpc[t] = "query"
    /\ ~whangs[t]
    /\ \E outcome \in {"ok", "exitN", "spawn"} :
          resp' = [resp EXCEPT ![t] = MakeResponse(t, DelegatorQuery(outcome, bctx))]
    /\ qctx' = [qctx EXCEPT ![t] = bctx]
    /\ wpc' = [wpc EXCEPT ![t] = "send"]
    /\ whangs' = [whangs EXCEPT ![t] = FALSE]
    /\ UNCHANGED <<useMocks, availableTools, history, prompt, bpc, bi, bctx, hload,
                   chClosed, received, cpc>>
    /\ UNCHANGED <<execVars, rvars, pvars, qvars, mvars, plvars>>

\* part_009:189  delegator.Query returns: the subprocess was killed because the
\* context is done
QueryAbort(t) ==
    /\ wpc[t] = "query"
    /\ QueryAborts(bctx)
    /\ resp' = [resp EXCEPT ![t] = MakeResponse(t, DelegatorQuery("killed", bctx))]
    /\ qctx' = [qctx EXCEPT ![t] = bctx]
    /\ wpc' = [wpc EXCEPT ![t] = "send"]
    /\ whangs' = [whangs EXCEPT ![t] = FALSE]
    /\ UNCHANGED <<useMocks, availableTools, history, prompt, bpc, bi, bctx, hload,
                   chClosed, received, cpc>>
    /\ UNCHANGED <<execVars, rvars, pvars, qvars, mvars, plvars>>

\* part_009:190-200, council.go:352-364  responseChan <- Response{...}: blocks
\* until the consumer's range loop receives (the loop body only prints); after
\* an error Response the goroutine ends
WorkerSend(t) ==
    /\ SendReady(t)
    /\ cpc = "recv"
    /\ ~chClosed
    /\ received' = Append(received, resp[t])
    /\ wpc' = [wpc EXCEPT ![t] = IF resp[t].Error THEN "done" ELSE "addLoad"]
    /\ resp' = [resp EXCEPT ![t] = NoResponse]
    /\ qctx' = [qctx EXCEPT ![t] = "none"]
    /\ UNCHANGED <<useMocks, availableTools, history, prompt, bpc, bi, bctx, whangs,
                   hload, chClosed, cpc>>
    /\ UNCHANGED <<execVars, rvars, pvars, qvars, mvars, plvars>>

\* part_009:482  AddMessage reads s.History (no lock is held)
AddMessageLoad(t) ==
    /\ wpc[t] = "addLoad"
    /\ hload' = [hload EXCEPT ![t] = history]
    /\ wpc' = [wpc EXCEPT ![t] = "addStore"]
    /\ UNCHANGED <<useMocks, availableTools, history, prompt, bpc, bi, bctx, whangs,
                   resp, qctx, chClosed, received, cpc>>
    /\ UNCHANGED <<execVars, rvars, pvars, qvars, mvars, plvars>>

\* part_009:482-486,187  s.History = append(<value read>, Message{...}); wg.Done
AddMessageStore(t) ==
    /\ wpc[t] = "addStore"
    /\ history' = Append(hload[t], t)
    /\ hload' = [hload EXCEPT ![t] = << >>]
    /\ wpc' = [wpc EXCEPT ![t] = "done"]
    /\ UNCHANGED <<useMocks, availableTools, prompt, bpc, bi, bctx, whangs, resp, qctx,
                   chClosed, received, cpc>>
    /\ UNCHANGED <<execVars, rvars, pvars, qvars, mvars, plvars>>

\* ---- consumer: for resp := range responseChan (council.go:352-367) --------

\* council.go:352,367  the range loop ends when the channel is closed
ConsumerExit ==
    /\ cpc = "recv"
    /\ chClosed
    /\ cpc' = "exit"
    /\ UNCHANGED <<useMocks, availableTools, history, prompt, bpc, bi, bctx, wpc,
                   whangs, resp, qctx, hload, chClosed, received>>
    /\ UNCHANGED <<execVars, rvars, pvars, qvars, mvars, plvars>>

\* part_009:152-153  Broadcast hands the receive end of the channel to its
\* caller, who may stop receiving before the channel is closed
ConsumerStop ==
    /\ cpc = "recv"
    /\ ~chClosed
    /\ cpc' = "stopped"
    /\ UNCHANGED <<useMocks, availableTools, history, prompt, bpc, bi, bctx, wpc,
                   whangs, resp, qctx, hload, chClosed, received>>
    /\ UNCHANGED <<execVars, rvars, pvars, qvars, mvars, plvars>>

NextBroadcast ==
    \/ BuildPrompt
    \/ MockSend
    \/ MockAdd
    \/ SkipTool
    \/ LaunchWorker
    \/ WaitWorkers
    \/ CancelContext
    \/ CloseChannel
    \/ ContextExpire
    \/ \E t \in Tools : QueryReturn(t)
    \/ \E t \in Tools : QueryAbort(t)
    \/ \E t \in Tools : WorkerSend(t)
    \/ \E t \in Tools : AddMessageLoad(t)
    \/ \E t \in Tools : AddMessageStore(t)
    \/ ConsumerExit

(***************************************************************************)
(* CostCalculator and DecisionEngine                                       *)
(***************************************************************************)
\* part_004:15-17  the tool types
ClaudeCodeTool == "claude-code"

CodexTool == "codex"

OpenCodeTool == "opencode"

\* part_004:241-243  GetAllToolTypes
ToolTypes == {ClaudeCodeTool, CodexTool, OpenCodeTool}

\* part_004:21  percent of capacity below which a tool is not available
AvailabilityThreshold == 5

\* calculator.go:14-18  price per 1k tokens, in thousandths of a dollar; an
\* estimated cost is then a whole number of millionths of a dollar
ClaudeCodePricePer1k == 30

CodexPricePer1k == 0

OpenCodePricePer1k == 0

\* available percentages a tracker can report: below the availability
\* threshold, between it and the 10% limit, and two values above both
Percents == {2, 7, 50, 80}

\* analysis.Tokens
TokenCounts == {0, 1500}

\* what one tracker answers during one calculateForTool: one of its calls
\* fails, or GetAvailablePercentage answers `available` and the later
\* IsAvailable call sees `availableAtCheck`: the same value, or (each call
\* reads the usage anew once the tracker's 5 s cache has expired) a value
\* below or above the availability threshold
TrackerAnswers ==
    UNION {{[fails |-> FALSE, available |-> a, availableAtCheck |-> b] :
               b \in {a, 2, 50}} :
           a \in Percents}
    \cup {[fails |-> TRUE, available |-> 0, availableAtCheck |-> 0]}

\* the orders in which trackers of distinct tool types can be registered
ToolOrders ==
    {q \in UNION {[1..n -> ToolTypes] : n \in 0..Cardinality(ToolTypes)} :
        \A i, j \in 1..Len(q) : i # j => q[i] # q[j]}

\* engine.go:29-34  the tracker lists a DecisionEngine can be built with
TrackerLists ==
    UNION {{[i \in 1..Len(q) |->
                [Tool             |-> q[i],
                 fails            |-> a[i].fails,
                 available        |-> a[i].available,
                 availableAtCheck |-> a[i].availableAtCheck]] :
               a \in [1..Len(q) -> TrackerAnswers]} :
           q \in ToolOrders}

\* calculator.go:107-118
getPricing(toolType) ==
    CASE toolType = ClaudeCodeTool -> ClaudeCodePricePer1k
      [] toolType = CodexTool      -> CodexPricePer1k
      [] toolType = OpenCodeTool   -> OpenCodePricePer1k
      [] OTHER                     -> 0

\* part_004:211-217, 329-335, claude_code.go:108-114  tracker.IsAvailable()
TrackerIsAvailable(tracker) == tracker.availableAtCheck >= AvailabilityThreshold

\* calculator.go:66-104
calculateForTool(tracker, tk) ==
    IF tracker.fails
    THEN [est |-> NoEstimate, err |-> TRUE]
    ELSE LET isAvailable == TrackerIsAvailable(tracker) IN
         [est |-> [Tool             |-> tracker.Tool,
                   EstimatedCost    |-> tk * getPricing(tracker.Tool),
                   EstimatedTokens  |-> tk,
                   AvailablePercent |-> tracker.available,
                   WillExceedLimit  |-> (~isAvailable) \/ tracker.available < 10,
                   IsAvailable      |-> isAvailable],
          err |-> FALSE]

RECURSIVE CalculateLoop(_, _, _, _)
\* calculator.go:49-56  the loop over cc.trackers, from index i on
CalculateLoop(trs, tk, i, acc) ==
    IF i > Len(trs) THEN acc
    ELSE LET r == calculateForTool(trs[i], tk) IN
         CalculateLoop(trs, tk, i + 1, IF r.err THEN acc ELSE Append(acc, r.est))

\* one failing tracker fails the whole calculation
CalculateCosts_FailsOnAnyError(trs, tk) ==
    LET es == CalculateLoop(trs, tk, 1, << >>) IN
    IF Len(es) = 0 \/ Len(es) < Len(trs) THEN [estimates |-> << >>, err |-> TRUE]
    ELSE [estimates |-> es, err |-> FALSE]

\* calculator.go:46-63
CalculateCosts(trs, tk) ==
    LET es == CalculateLoop(trs, tk, 1, << >>) IN
    IF Len(es) = 0 THEN [estimates |-> << >>, err |-> TRUE]
    ELSE [estimates |-> es, err |-> FALSE]

\* the filter keeps every estimate
FilterAvailable_KeepsAll(es) == es

\* the filter looks at IsAvailable alone
FilterAvailable_OnlyIsAvailable(es) == SelectSeq(es, LAMBDA e : e.IsAvailable)

RECURSIVE PrependEligible(_, _, _)
PrependEligible(es, i, acc) ==
    IF i > Len(es) THEN acc
    ELSE PrependEligible(es, i + 1,
            IF es[i].IsAvailable /\ ~es[i].WillExceedLimit
            THEN <<es[i]>> \o acc ELSE acc)

\* each estimate kept is put in front of those kept before it
FilterAvailable_Prepends(es) == PrependEligible(es, 1, << >>)

\* calculator.go:170-178
FilterAvailable(es) ==
    SelectSeq(es, LAMBDA e : e.IsAvailable /\ ~e.WillExceedLimit)

\* the comparator's last key is the available percentage, ascending
Less_PercentAscending(a, b) ==
    IF a.IsAvailable # b.IsAvailable THEN a.IsAvailable
    ELSE IF a.WillExceedLimit # b.WillExceedLimit THEN ~a.WillExceedLimit
    ELSE IF a.EstimatedCost = 0 /\ b.EstimatedCost # 0 THEN TRUE
    ELSE IF a.EstimatedCost # 0 /\ b.EstimatedCost = 0 THEN FALSE
    ELSE IF a.EstimatedCost # b.EstimatedCost THEN a.EstimatedCost < b.EstimatedCost
    ELSE a.AvailablePercent < b.AvailablePercent

\* calculator.go:126-154  the comparator handed to sort.Slice
Less(a, b) ==
    IF a.IsAvailable # b.IsAvailable THEN a.IsAvailable
    ELSE IF a.WillExceedLimit # b.WillExceedLimit THEN ~a.WillExceedLimit
    ELSE IF a.EstimatedCost = 0 /\ b.EstimatedCost # 0 THEN TRUE
    ELSE IF a.EstimatedCost # 0 /\ b.EstimatedCost = 0 THEN FALSE
    ELSE IF a.EstimatedCost # b.EstimatedCost THEN a.EstimatedCost < b.EstimatedCost
    ELSE a.AvailablePercent > b.AvailablePercent

Swap(d, i, j) == [d EXCEPT ![i] = d[j], ![j] = d[i]]

RECURSIVE SinkDown(_, _)
\* for j := i; j > a && less(j, j-1); j-- { swap(j, j-1) }
SinkDown(d, j) ==
    IF j > 1 /\ Less(d[j], d[j - 1]) THEN SinkDown(Swap(d, j, j - 1), j - 1)
    ELSE d

RECURSIVE InsertionSort(_, _)
\* calculator.go:126  sort.Slice on a slice shorter than 12 elements is an
\* insertion sort: for i := a + 1; i < b; i++ { sink element i down }
InsertionSort(d, i) ==
    IF i > Len(d) THEN d ELSE InsertionSort(SinkDown(d, i), i + 1)

\* the copy is returned as it is
SortEstimates_Unsorted(es) == es

\* calculator.go:122-157  sorts a copy, the argument is left as it is
SortEstimates(es) == InsertionSort(es, 2)


\* ---- forced tool names ---------------------------------------------------

UpperCase == <<"A","B","C","D","E","F","G","H","I","J","K","L","M",
               "N","O","P","Q","R","S","T","U","V","W","X","Y","Z">>

LowerCase == <<"a","b","c","d","e","f","g","h","i","j","k","l","m",
               "n","o","p","q","r","s","t","u","v","w","x","y","z">>

\* strings.ToLower, character by character
ToLower(s) ==
    [i \in 1..Len(s) |->
        IF \E k \in 1..Len(UpperCase) : UpperCase[k] = s[i]
        THEN LowerCase[CHOOSE k \in 1..Len(UpperCase) : UpperCase[k] = s[i]]
        ELSE s[i]]

IsSpace(c) == c \in {" ", "\t", "\n"}

RECURSIVE TrimLeft(_)
TrimLeft(s) == IF s # << >> /\ IsSpace(Head(s)) THEN TrimLeft(Tail(s)) ELSE s

RECURSIVE TrimRight(_)
TrimRight(s) ==
    IF s # << >> /\ IsSpace(s[Len(s)]) THEN TrimRight(SubSeq(s, 1, Len(s) - 1))
    ELSE s

\* strings.TrimSpace
TrimSpace(s) == TrimRight(TrimLeft(s))

\* the characters of string(toolType)
ToolTypeChars ==
    [t \in ToolTypes |->
        CASE t = ClaudeCodeTool -> <<"c","l","a","u","d","e","-","c","o","d","e">>
          [] t = CodexTool      -> <<"c","o","d","e","x">>
          [] t = OpenCodeTool   -> <<"o","p","e","n","c","o","d","e">>]

\* the name is compared as given, without lower-casing or trimming
ValidateToolType_AsGiven(toolType) ==
    IF \E t \in ToolTypes : ToolTypeChars[t] = toolType
    THEN [toolType |-> CHOOSE t \in ToolTypes : ToolTypeChars[t] = toolType,
          err |-> FALSE]
    ELSE [toolType |-> "", err |-> TRUE]

\* part_004:225-238
ValidateToolType(toolType) ==
    LET normalized == ToLower(TrimSpace(toolType)) IN
    IF \E t \in ToolTypes : ToolTypeChars[t] = normalized
    THEN [toolType |-> CHOOSE t \in ToolTypes : ToolTypeChars[t] = normalized,
          err |-> FALSE]
    ELSE [toolType |-> "", err |-> TRUE]

\* values of the --force flag: absent, exact names, names to be normalised,
\* and names of no tool
ForceInputs ==
    { << >>,
      <<"c","o","d","e","x">>,
      <<" ","C","l","a","u","d","e","-","C","o","d","e">>,
      <<"O","P","E","N","C","O","D","E","\n">>,
      <<"g","p","t">>,
      <<"c","o","d","e"," ","x">> }

\* ---- DecisionEngine ------------------------------------------------------

\* engine.go:126-180  the parts of the reason text
buildReason(selected, allEstimates) ==
    <<IF selected.EstimatedCost = 0 THEN "free tier" ELSE "est. cost">>
    \o <<"complexity">>
    \o (IF Len(allEstimates) > 1 THEN <<"alternatives">> ELSE << >>)

\* every sorted estimate is returned as an alternative
AlternativesOf_All(sortedEstimates) == sortedEstimates

\* engine.go:70  Alternatives: sorted[1:]
AlternativesOf(sortedEstimates) == Tail(sortedEstimates)

\* the reason of a forced decision carries no warning
ForcedReason_NoWarnings(selected) == <<"forced">>

\* engine.go:106-112  the reason of a forced decision and its warnings
ForcedReason(selected) ==
    <<"forced">>
    \o (IF ~selected.IsAvailable THEN <<"low availability">> ELSE << >>)
    \o (IF selected.WillExceedLimit THEN <<"may exceed limits">> ELSE << >>)

RECURSIVE ForcedLoop(_, _, _, _)
\* engine.go:93-99  the last estimate of the forced type is selected, every
\* other estimate becomes an alternative
ForcedLoop(es, toolType, i, acc) ==
    IF i > Len(es) THEN acc
    ELSE ForcedLoop(es, toolType, i + 1,
            IF es[i].Tool = toolType
            THEN [acc EXCEPT !.selected = es[i], !.found = TRUE]
            ELSE [acc EXCEPT !.alternatives = Append(@, es[i])])

\* engine.go:78-123
handleForcedTool(force, es) ==
    LET v == ValidateToolType(force) IN
    IF v.err THEN [decision |-> NilDecision, err |-> "invalid forced tool"]
    ELSE
      LET r == ForcedLoop(es, v.toolType, 1,
                  [selected |-> NoEstimate, found |-> FALSE, alternatives |-> << >>])
      IN
      IF ~r.found THEN [decision |-> NilDecision, err |-> "forced tool not found"]
      ELSE [decision |->
              [isNil        |-> FALSE,
               SelectedTool |-> r.selected.Tool,
               SelectedCost |-> r.selected,
               Alternatives |-> r.alternatives,
               WasForced    |-> TRUE,
               Reason       |-> ForcedReason(r.selected)],
            err |-> "none"]

\* engine.go:38-75  the decision and the error MakeDecision returns, together
\* with the estimates it computed on the way
MakeDecisionOf(trs, tk, force) ==
    LET c == CalculateCosts(trs, tk) IN
    IF c.err
    THEN [decision |-> NilDecision, err |-> "failed to calculate costs",
          estimates |-> << >>]
    ELSE IF force # << >>
    THEN LET f == handleForcedTool(force, c.estimates) IN
         [decision |-> f.decision, err |-> f.err, estimates |-> c.estimates]
    ELSE LET available == FilterAvailable(c.estimates) IN
         IF Len(available) = 0
         THEN [decision |-> NilDecision, err |-> "no tools available",
               estimates |-> c.estimates]
         ELSE LET sortedEstimates == SortEstimates(available)
                  selected == sortedEstimates[1]
              IN [decision |->
                    [isNil        |-> FALSE,
                     SelectedTool |-> selected.Tool,
                     SelectedCost |-> selected,
                     Alternatives |-> AlternativesOf(sortedEstimates),
                     WasForced    |-> FALSE,
                     Reason       |-> buildReason(selected, sortedEstimates)],
                  err |-> "none",
                  estimates |-> c.estimates]

\* a DecisionEngine built over its trackers, and an analysed task
InitRouter ==
    /\ ExecInitial
    /\ BroadcastQuiescent
    /\ ParserQuiescent
    /\ QueryQuiescent
    /\ RendererQuiescent
    /\ PlannerQuiescent
    /\ trackers \in TrackerLists
    /\ tokens \in TokenCounts
    /\ forceTool = << >>
    /\ rpc = "ready"
    /\ estimates = << >>
    /\ sorted = << >>
    /\ filtered = << >>
    /\ decision = NilDecision
    /\ decErr = "none"

\* engine.go:38-75  DecisionEngine.MakeDecision(analysis, forceTool)
MakeDecision ==
    /\ rpc = "ready"
    /\ \E force \in ForceInputs :
          LET r == MakeDecisionOf(trackers, tokens, force) IN
          /\ forceTool' = force
          /\ decision' = r.decision
          /\ decErr' = r.err
          /\ estimates' = r.estimates
    /\ rpc' = "decided"
    /\ UNCHANGED <<trackers, tokens, sorted, filtered>>
    /\ UNCHANGED <<execVars, bvars, pvars, qvars, mvars, plvars>>

\* calculator.go:46-63  CostCalculator.CalculateCosts(analysis)
CalculateCostsCall ==
    /\ rpc = "ready"
    /\ LET c == CalculateCosts(trackers, tokens) IN
          /\ estimates' = c.estimates
          /\ decErr' = IF c.err THEN "no tools available for cost calculation"
                       ELSE "none"
    /\ rpc' = "costed"
    /\ UNCHANGED <<trackers, tokens, forceTool, sorted, filtered, decision>>
    /\ UNCHANGED <<execVars, bvars, pvars, qvars, mvars, plvars>>

\* calculator.go:122-157  CostCalculator.SortEstimates(estimates) on the
\* estimates CalculateCosts returned
SortEstimatesCall ==
    /\ rpc = "costed"
    /\ decErr = "none"
    /\ sorted' = SortEstimates(estimates)
    /\ rpc' = "sorted"
    /\ UNCHANGED <<trackers, tokens, forceTool, estimates, filtered, decision, decErr>>
    /\ UNCHANGED <<execVars, bvars, pvars, qvars, mvars, plvars>>

\* calculator.go:170-178  CostCalculator.FilterAvailable(estimates) on the
\* estimates CalculateCosts returned
FilterAvailableCall ==
    /\ rpc = "costed"
    /\ decErr = "none"
    /\ filtered' = FilterAvailable(estimates)
    /\ rpc' = "filtered"
    /\ UNCHANGED <<trackers, tokens, forceTool, estimates, sorted, decision, decErr>>
    /\ UNCHANGED <<execVars, bvars, pvars, qvars, mvars, plvars>>

NextRouter ==
    \/ MakeDecision
    \/ CalculateCostsCall
    \/ SortEstimatesCall
    \/ FilterAvailableCall


(***************************************************************************)
(* StreamParser and CodexStreamParser                                      *)
(*                                                                         *)
(* A string is the sequence of its characters.  A transport line is what   *)
(* bufio.Scanner delivers: kind tells whether it is empty, fails           *)
(* json.Unmarshal ("malformed"), is a JSON object without a string "type"  *)
(* ("notype") or is an event; text holds the raw line for the first two    *)
(* and the event's string payload otherwise.                               *)
(***************************************************************************)
\* transport lines one stream carries
MaxTransport == 3

ParserVariants == {"claude", "codex"}

NL == "\n"

\* text payloads: a partial line, a complete line, a line break in the middle
Texts == { <<"a">>, <<"b", NL>>, <<"a", NL, "b">> }

TLine(kind, type, sub, text, items, agg, long) ==
    [kind |-> kind, type |-> type, sub |-> sub, text |-> text, items |-> items,
     agg |-> agg, long |-> long]

Event(type, sub, text) == TLine("event", type, sub, text, << >>, << >>, FALSE)

\* the lines a worker's stdout can carry
TransportLines ==
    { TLine("empty", "", "", << >>, << >>, << >>, FALSE),
      TLine("malformed", "", "", <<"{", "x">>, << >>, << >>, FALSE),
      TLine("notype", "", "", <<"{", "}">>, << >>, << >>, FALSE),
      Event("system", "", << >>),
      Event("stream_event", "message_stop", << >>),
      Event("item.started", "", <<"a">>),
      Event("error", "", <<"a">>),
      TLine("event", "assistant", "", << >>, << <<"b", NL>> >>, << >>, FALSE),
      TLine("event", "assistant", "", << >>, << <<"a">>, <<"b", NL>> >>, << >>, FALSE),
      TLine("event", "message", "", << >>, << <<"a">>, <<"b", NL>> >>, << >>, FALSE),
      Event("message", "", <<"b", NL>>),
      TLine("event", "item.completed", "reasoning", <<"a">>, << >>, << >>, FALSE),
      TLine("event", "item.completed", "reasoning", <<"a">>, << >>, << >>, TRUE),
      TLine("event", "item.completed", "command_execution", << >>, << >>, <<"b", NL>>,
            FALSE) }
    \cup { Event("stream_event", "text_delta", x) : x \in Texts }
    \cup { Event("delta", "", x) : x \in Texts }
    \cup { Event("result", "", x) : x \in {<<"a">>, <<"b", NL>>} }

\* the parser's state: lineBuffer, fullOutput and the onLine calls made
PState(buf, out, calls) == [buf |-> buf, out |-> out, calls |-> calls]

\* strings.Index(content, "\n"), 1-based; 0 when there is none
NewlineIdx(content) ==
    IF \E i \in 1..Len(content) : content[i] = NL
    THEN CHOOSE i \in 1..Len(content) :
            /\ content[i] = NL
            /\ \A j \in 1..(i - 1) : content[j] # NL
    ELSE 0

RECURSIVE DrainLines(_)
\* stream.go:107-123  the loop of processText
DrainLines(st) ==
    LET idx == NewlineIdx(st.buf) IN
    IF idx = 0 THEN st
    ELSE LET line      == SubSeq(st.buf, 1, idx - 1)
             remaining == SubSeq(st.buf, idx + 1, Len(st.buf))
         IN DrainLines(PState(remaining, st.out \o line \o <<NL>>,
                              Append(st.calls, line)))

\* stream.go:104-124, codex_stream_parser.go:112-132  processText
processText(text, st) == DrainLines(PState(st.buf \o text, st.out, st.calls))

\* processText, when the line buffer is empty
processIfBufferEmpty(text, st) ==
    IF text # << >> /\ Len(st.buf) = 0 THEN processText(text, st) ELSE st

RECURSIVE ProcessItems(_, _, _)
\* stream.go:68-76, codex_stream_parser.go:63-69  the loop over the content
\* items of a full message
ProcessItems(items, i, st) ==
    IF i > Len(items) THEN st
    ELSE ProcessItems(items, i + 1, processIfBufferEmpty(items[i], st))

\* stream.go:34-87  the body of the scan loop of StreamParser.Parse
StreamParserLine(line, st) ==
    CASE line.kind = "empty" -> st
      [] line.kind = "malformed" -> processText(line.text, st)
      [] line.kind = "notype" -> processText(line.text, st)
      [] OTHER ->
            CASE line.type = "stream_event" ->
                    IF line.sub = "text_delta" /\ line.text # << >>
                    THEN processText(line.text, st) ELSE st
              [] line.type = "assistant" -> ProcessItems(line.items, 1, st)
              [] line.type = "result" -> processIfBufferEmpty(line.text, st)
              [] OTHER -> st

\* codex_stream_parser.go:134-150  extractItemContent; long says that the
\* item's text has more than 200 characters
extractItemContent(line, st) ==
    LET afterText == IF line.text # << >> /\ line.long
                     THEN processText(line.text \o <<NL>>, st) ELSE st
    IN  IF line.sub = "command_execution" /\ line.agg # << >>
        THEN processText(line.agg, afterText) ELSE afterText

\* codex_stream_parser.go:34-95  the body of the scan loop of
\* CodexStreamParser.Parse
CodexStreamParserLine(line, st) ==
    CASE line.kind \in {"empty", "malformed", "notype"} -> st
      [] OTHER ->
            CASE line.type = "delta" ->
                    IF line.text # << >> THEN processText(line.text, st) ELSE st
              [] line.type = "message" ->
                    IF line.text # << >> THEN processIfBufferEmpty(line.text, st)
                    ELSE ProcessItems(line.items, 1, st)
              [] line.type = "item.completed" -> extractItemContent(line, st)
              [] line.type = "item.started" ->
                    IF line.text # << >>
                    THEN processText(<<"$", " ">> \o line.text, st) ELSE st
              [] line.type = "result" -> processIfBufferEmpty(line.text, st)
              [] line.type = "error" ->
                    IF line.text # << >>
                    THEN processText(<<"[", "E", "r", "r", "o", "r", "]", " ">>
                                     \o line.text, st)
                    ELSE st
              [] OTHER -> st

\* the residual partial line is dropped at end of stream
FlushResidual_Drops(st) == PState(<< >>, st.out, st.calls)

\* stream.go:94-99, codex_stream_parser.go:102-107  the flush at end of stream
FlushResidual(st) ==
    IF Len(st.buf) > 0
    THEN PState(<< >>, st.out \o st.buf, Append(st.calls, st.buf))
    ELSE st

\* state right after NewStreamParser / NewCodexStreamParser, Parse entered
InitParser ==
    /\ ExecInitial
    /\ BroadcastQuiescent
    /\ RouterQuiescent
    /\ QueryQuiescent
    /\ RendererQuiescent
    /\ PlannerQuiescent
    /\ pvariant \in ParserVariants
    /\ ppc = "scanning"
    /\ nscanned = 0
    /\ pline = NoLine
    /\ lineBuffer = << >>
    /\ fullOutput = << >>
    /\ onLineCalls = << >>
    /\ pRet = << >>
    /\ pErr = "none"

\* stream.go:33-88, codex_stream_parser.go:33-96  scanner.Scan() delivers one
\* transport line and the loop body handles it
ScanLine ==
    /\ ppc = "scanning"
    /\ nscanned < MaxTransport
    /\ \E line \in TransportLines :
          LET st    == PState(lineBuffer, fullOutput, onLineCalls)
              after == IF pvariant = "claude" THEN StreamParserLine(line, st)
                       ELSE CodexStreamParserLine(line, st)
          IN  /\ pline' = line
              /\ lineBuffer' = after.buf
              /\ fullOutput' = after.out
              /\ onLineCalls' = after.calls
    /\ nscanned' = nscanned + 1
    /\ UNCHANGED <<pvariant, ppc, pRet, pErr>>
    /\ UNCHANGED <<execVars, bvars, rvars, qvars, mvars, plvars>>

\* stream.go:90-101, codex_stream_parser.go:98-109  scanner.Scan() returns
\* false at EOF, scanner.Err() is nil
ScanEOF ==
    /\ ppc = "scanning"
    /\ LET after == FlushResidual(PState(lineBuffer, fullOutput, onLineCalls)) IN
          /\ lineBuffer' = after.buf
          /\ fullOutput' = after.out
          /\ onLineCalls' = after.calls
          /\ pRet' = after.out
    /\ pErr' = "none"
    /\ ppc' = "done"
    /\ UNCHANGED <<pvariant, nscanned, pline>>
    /\ UNCHANGED <<execVars, bvars, rvars, qvars, mvars, plvars>>

\* stream.go:90-92, codex_stream_parser.go:98-100  scanner.Scan() returns false
\* with scanner.Err() set: the read failed, or a transport line is longer than
\* the scanner's buffer (bufio.ErrTooLong)
ScanError ==
    /\ ppc = "scanning"
    /\ \E cause \in {"read error", "token too long"} : pErr' = cause
    /\ pRet' = << >>
    /\ ppc' = "done"
    /\ UNCHANGED <<pvariant, nscanned, pline, lineBuffer, fullOutput, onLineCalls>>
    /\ UNCHANGED <<execVars, bvars, rvars, qvars, mvars, plvars>>

NextParser ==
    \/ ScanLine
    \/ ScanEOF
    \/ ScanError

(***************************************************************************)
(* StreamingMarkdownRenderer between the parser's callback and lineHandler *)
(* (delegator.go:158-189 with shouldUseColors() true and a parser other    *)
(* than the Codex one).  Every onLine call is a step of its own, so that   *)
(* the state of smr.mu at the moment of a write to os.Stderr is visible.   *)
(***************************************************************************)
\* calls of renderer.Write during one Parse
MaxWrites == 3

\* part_006:11
maxBufferSize == 500

\* the logical lines the parser's callback can hand over
CallbackLines == { <<"a">>, <<"b">>, << >> }

RECURSIVE SplitLines(_)
\* strings.Split(s, "\n")
SplitLines(str) ==
    LET idx == NewlineIdx(str) IN
    IF idx = 0 THEN <<str>>
    ELSE <<SubSeq(str, 1, idx - 1)>> \o SplitLines(SubSeq(str, idx + 1, Len(str)))

\* strings.TrimSuffix(s, "\n")
TrimSuffixNL(str) ==
    IF Len(str) > 0 /\ str[Len(str)] = NL THEN SubSeq(str, 1, Len(str) - 1) ELSE str

RECURSIVE StyleLines(_)
\* glamour's TermRenderer.Render: every non-empty line comes back styled (here:
\* behind an escape mark), the line structure is kept
StyleLines(lines) ==
    IF lines = << >> THEN << >>
    ELSE LET l == lines[1]
             styled == IF l = << >> THEN l ELSE <<"^">> \o l
         IN  IF Len(lines) = 1 THEN styled
             ELSE styled \o <<NL>> \o StyleLines(Tail(lines))

Render(str) == StyleLines(SplitLines(str))

\* part_006:92-109  renderLine(line): the onLine calls it makes
renderLine(line, available) ==
    IF ~available THEN <<line>>
    ELSE IF line = << >> THEN << << >> >>
    ELSE <<TrimSuffixNL(Render(line \o <<NL>>))>>

\* part_006:111-131  flushBuffer(content): the onLine calls it makes
flushBuffer(content, available) ==
    IF content = << >> THEN << >>
    ELSE IF ~available THEN <<content>>
    ELSE SplitLines(TrimSuffixNL(Render(content \o <<NL>>)))

RECURSIVE ProcessLoop(_, _, _, _)
\* part_006:64-90  processBuffer: the onLine calls it makes and the buffer it
\* leaves; buffer is smr.buffer as Write left it
ProcessLoop(buffer, content, calls, available) ==
    LET lineEnd == NewlineIdx(content) IN
    IF lineEnd # 0
    THEN ProcessLoop(buffer, SubSeq(content, lineEnd + 1, Len(content)),
                     calls \o renderLine(SubSeq(content, 1, lineEnd - 1), available),
                     available)
    ELSE IF Len(content) >= maxBufferSize \/ ~available
         THEN [calls |-> calls \o flushBuffer(content, available), buffer |-> << >>]
         ELSE [calls |-> calls,
               buffer |-> IF content # << >> THEN content ELSE buffer]

processBuffer(buffer, available) == ProcessLoop(buffer, buffer, << >>, available)

\* state when the stream goroutine has built the renderer and entered Parse
InitRenderer ==
    /\ ExecInitial
    /\ BroadcastQuiescent
    /\ RouterQuiescent
    /\ ParserQuiescent
    /\ QueryQuiescent
    /\ PlannerQuiescent
    /\ smrRenderer \in BOOLEAN
    /\ smrMu = "free"
    /\ smrBuffer = << >>
    /\ smrClosed = FALSE
    /\ onLineQueue = << >>
    /\ smrCall = "none"
    /\ mpos = "parse"
    /\ nwrites = 0
    /\ stderrLines = << >>

\* delegator.go:173-176, part_006:50-62  the parser's callback calls
\* renderer.Write(line + "\n"): the mutex is taken and processBuffer runs
RendererWrite ==
    /\ mpos = "parse"
    /\ nwrites < MaxWrites
    /\ \E line \in CallbackLines :
          LET r == processBuffer(smrBuffer \o line \o <<NL>>, smrRenderer) IN
          /\ onLineQueue' = r.calls
          /\ smrBuffer' = r.buffer
    /\ smrMu' = "held"
    /\ smrCall' = "write"
    /\ mpos' = "onLine"
    /\ nwrites' = nwrites + 1
    /\ UNCHANGED <<smrRenderer, smrClosed, stderrLines>>
    /\ UNCHANGED <<execVars, bvars, rvars, pvars, qvars, plvars>>

\* delegator.go:143-156  one call smr.onLine(line) = lineHandler(line): an empty
\* line returns at once, any other is written to os.Stderr
HandlerLine ==
    /\ mpos = "onLine"
    /\ onLineQueue # << >>
    /\ stderrLines' = IF Head(onLineQueue) = << >> THEN stderrLines
                      ELSE Append(stderrLines, Head(onLineQueue))
    /\ onLineQueue' = Tail(onLineQueue)
    /\ UNCHANGED <<smrRenderer, smrMu, smrBuffer, smrClosed, smrCall, mpos, nwrites>>
    /\ UNCHANGED <<execVars, bvars, rvars, pvars, qvars, plvars>>

\* part_006:52,140,160  the deferred smr.mu.Unlock() when the method returns
RendererUnlock ==
    /\ mpos = "onLine"
    /\ onLineQueue = << >>
    /\ smrMu' = "free"
    /\ mpos' = CASE smrCall = "write" -> "parse"
                 [] smrCall = "flush" -> "close"
                 [] OTHER -> "done"
    /\ UNCHANGED <<smrRenderer, smrBuffer, smrClosed, onLineQueue, smrCall, nwrites,
                   stderrLines>>
    /\ UNCHANGED <<execVars, bvars, rvars, pvars, qvars, plvars>>

\* delegator.go:184-187, part_006:158-166  Parse has returned and
\* renderer.Flush() is called
RendererFlush ==
    /\ mpos = "parse"
    /\ smrMu' = "held"
    /\ onLineQueue' = IF Len(smrBuffer) > 0 THEN flushBuffer(smrBuffer, smrRenderer)
                      ELSE << >>
    /\ smrBuffer' = << >>
    /\ smrCall' = "flush"
    /\ mpos' = "onLine"
    /\ UNCHANGED <<smrRenderer, smrClosed, nwrites, stderrLines>>
    /\ UNCHANGED <<execVars, bvars, rvars, pvars, qvars, plvars>>

\* delegator.go:188, part_006:138-156  renderer.Close()
RendererClose ==
    /\ mpos = "close"
    /\ smrMu' = "held"
    /\ smrClosed' = TRUE
    /\ onLineQueue' = IF Len(smrBuffer) > 0 THEN flushBuffer(smrBuffer, smrRenderer)
                      ELSE << >>
    /\ smrBuffer' = << >>
    /\ smrRenderer' = FALSE
    /\ smrCall' = "close"
    /\ mpos' = "onLine"
    /\ UNCHANGED <<nwrites, stderrLines>>
    /\ UNCHANGED <<execVars, bvars, rvars, pvars, qvars, plvars>>

NextRenderer ==
    \/ RendererWrite
    \/ HandlerLine
    \/ RendererUnlock
    \/ RendererFlush
    \/ RendererClose

(***************************************************************************)
(* Orchestrator.Query                                                      *)
(***************************************************************************)
\* calls of Query during one session
MaxQueries == 2

\* the tool names Query can be called with: the council's tools and a name
\* that is neither in availableTools nor in delegators
QueryTools == Tools \cup {"gemini"}

\* the availability check lets every tool through
Unavailable_Never(tool) == FALSE

\* part_009:218  available, ok := o.availableTools[tool]; !ok || !available
Unavailable(tool) ==
    IF tool \in DOMAIN availableTools THEN availableTools[tool] # "yes" ELSE TRUE

\* part_009:327-360  getMockResponse: one of the tool's canned responses, or the
\* fallback for a tool without any
getMockResponse(tool) ==
    IF tool \in {"claude", "codex", "opencode"} THEN "mock" ELSE "no opinion"

\* state of a session before a Query
InitQuery ==
    /\ ExecInitial
    /\ RouterQuiescent
    /\ ParserQuiescent
    /\ RendererQuiescent
    /\ PlannerQuiescent
    /\ useMocks \in BOOLEAN
    /\ availableTools \in AvailabilityMaps
    /\ history \in InitialHistories
    /\ prompt = << >>
    /\ bpc = "idle"
    /\ bi = 1
    /\ bctx = "live"
    /\ wpc = [t \in Tools |-> "none"]
    /\ whangs = [t \in Tools |-> FALSE]
    /\ resp = [t \in Tools |-> NoResponse]
    /\ qctx = [t \in Tools |-> "none"]
    /\ hload = [t \in Tools |-> << >>]
    /\ chClosed = FALSE
    /\ received = << >>
    /\ cpc = "idle"
    /\ QueryQuiescent

\* part_009:213-266  Orchestrator.Query(tool, message)
Query ==
    /\ nqueries < MaxQueries
    /\ \E tool \in QueryTools :
          /\ qtool' = tool
          /\ lastTool' = tool
          /\ IF ~useMocks /\ Unavailable(tool)
             THEN /\ qresp' = [Tool |-> tool, Content |-> "", Error |-> TRUE]
                  /\ qinvoked' = FALSE
                  /\ UNCHANGED <<history, prompt>>
             ELSE IF useMocks
             THEN /\ qresp' = [Tool |-> tool, Content |-> getMockResponse(tool),
                               Error |-> FALSE]
                  /\ history' = Append(history, tool)
                  /\ qinvoked' = FALSE
                  /\ UNCHANGED prompt
             ELSE /\ prompt' = BuildCouncilPrompt(history)
                  /\ IF tool \in Delegators
                     THEN \E outcome \in {"ok", "exitN", "spawn", "killed"} :
                            LET q == DelegatorQuery(outcome,
                                        IF outcome = "killed" THEN "expired" ELSE "live")
                            IN  /\ qinvoked' = TRUE
                                /\ IF q.err
                                   THEN /\ qresp' = [Tool |-> tool, Content |-> "",
                                                     Error |-> TRUE]
                                        /\ UNCHANGED history
                                   ELSE /\ qresp' = MakeResponse(tool, q)
                                        /\ history' = Append(history, tool)
                     ELSE /\ qresp' = [Tool |-> tool, Content |-> "", Error |-> TRUE]
                          /\ qinvoked' = FALSE
                          /\ UNCHANGED history
    /\ nqueries' = nqueries + 1
    /\ UNCHANGED <<useMocks, availableTools, bpc, bi, bctx, wpc, whangs, resp, qctx,
                   hload, chClosed, received, cpc>>
    /\ UNCHANGED <<execVars, rvars, pvars, mvars, plvars>>

NextQuery == Query

(***************************************************************************)
(* Planner: extractJSON and ParsePlanResponse (planner.go)                 *)
(*                                                                         *)
(* A reply is a sequence of tokens:                                        *)
(*   "{" "}"  braces             ","  the separator of two members         *)
(*   "m"      the member "summary":"S" (a key with a scalar value)         *)
(*   "n"      a key whose value holds the object that follows (at the top  *)
(*            of a plan: "files": [ object ])                              *)
(*   "x"      a word of prose     "f"  a code fence    "j"  the word json   *)
(***************************************************************************)
\* payloads a worker can produce, by nesting depth
Payloads ==
    { <<"{", "}">>,
      <<"{", "m", "}">>,
      <<"{", "m", ",", "n", "{", "m", "}", "}">>,
      <<"{", "n", "{", "n", "{", "m", "}", "}", "}">>,
      <<"{", "m", ",", "n", "{", "n", "{", "}", "}", "}">> }

\* a payload as it is, in prose, or in a fence with prose around it
Wrapped(pl) ==
    { pl,
      <<"x">> \o pl,
      <<"x">> \o pl \o <<"x">>,
      <<"f", "j">> \o pl \o <<"f">>,
      <<"x", "f">> \o pl \o <<"f", "x">>,
      <<"x", "f", "j">> \o pl \o <<"f", "x">> }

\* replies without a decodable payload: prose, prose with braces, a truncated
\* object
Prose ==
    { <<"x">>, <<"x", "x">>, <<"x", "{", "x">>, <<"x", "{", "x", "}">>,
      <<"{", "m">>, <<"{", "m", ",", "}">>, <<"f", "x", "f">> }

RECURSIVE ObjEnd(_, _), MembersEnd(_, _)
\* encoding/json: the index after the object that starts at i, 0 when the
\* tokens from i on do not start with a well-formed object
ObjEnd(str, i) ==
    IF i > Len(str) \/ str[i] # "{" THEN 0
    ELSE IF i + 1 <= Len(str) /\ str[i + 1] = "}" THEN i + 2
    ELSE MembersEnd(str, i + 1)

\* the index after the object whose next member starts at j
MembersEnd(str, j) ==
    LET afterMember ==
            IF j > Len(str) THEN 0
            ELSE IF str[j] = "m" THEN j + 1
            ELSE IF str[j] = "n" THEN ObjEnd(str, j + 1)
            ELSE 0
    IN  IF afterMember = 0 \/ afterMember > Len(str) THEN 0
        ELSE IF str[afterMember] = "}" THEN afterMember + 1
        ELSE IF str[afterMember] = "," THEN MembersEnd(str, afterMember + 1)
        ELSE 0

\* json.Unmarshal([]byte(str), &plan) returns no error
Unmarshals(str) == ObjEnd(str, 1) = Len(str) + 1

RECURSIVE TopLevel(_, _, _)
\* the members of the object str at nesting depth 1, in order
TopLevel(str, i, depth) ==
    IF i > Len(str) THEN << >>
    ELSE IF str[i] = "{" THEN TopLevel(str, i + 1, depth + 1)
    ELSE IF str[i] = "}" THEN TopLevel(str, i + 1, depth - 1)
    ELSE (IF depth = 1 /\ str[i] \in {"m", "n"} THEN <<str[i]>> ELSE << >>)
         \o TopLevel(str, i + 1, depth)

\* planner.go:18-26  the Plan json.Unmarshal fills from a well-formed object:
\* Summary from its "summary" member, one file per nested object
Decode(str) ==
    LET members == TopLevel(str, 1, 0) IN
    [Summary |-> IF \E k \in 1..Len(members) : members[k] = "m" THEN <<"S">> ELSE << >>,
     Files   |-> SelectSeq(members, LAMBDA t : t = "n")]

\* planner.go:76  fence (?:json)?\s*({.*?})\s* fence : the end of the shortest
\* group that starts at the brace behind the fence at i, 0 when there is none
FencedEnd(str, i) ==
    LET open == IF i + 1 <= Len(str) /\ str[i + 1] = "j" THEN i + 2 ELSE i + 1
        ends == { e \in (open + 1)..(Len(str) - 1) : str[e] = "}" /\ str[e + 1] = "f" }
    IN  IF str[i] = "f" /\ open <= Len(str) /\ str[open] = "{" /\ ends # {}
        THEN CHOOSE e \in ends : \A f \in ends : e <= f
        ELSE 0

\* the first index from k on that holds a brace, Len + 1 when there is none
SkipPlain(str, k) ==
    LET braces == { e \in k..Len(str) : str[e] \in {"{", "}"} } IN
    IF braces = {} THEN Len(str) + 1 ELSE CHOOSE e \in braces : \A f \in braces : e <= f

RECURSIVE GroupsEnd(_, _)
\* planner.go:82  (?:\{[^{}]*\}[^{}]*)*\} from k, a brace or the end of str
GroupsEnd(str, k) ==
    IF k > Len(str) THEN 0
    ELSE IF str[k] = "}" THEN k
    ELSE LET e == SkipPlain(str, k + 1) IN
         IF e <= Len(str) /\ str[e] = "}" THEN GroupsEnd(str, SkipPlain(str, e + 1))
         ELSE 0

\* planner.go:82  \{[^{}]*(?:\{[^{}]*\}[^{}]*)*\} : the end of the match that
\* starts at i, 0 when there is none
RawEnd(str, i) ==
    IF str[i] # "{" THEN 0 ELSE GroupsEnd(str, SkipPlain(str, i + 1))

\* planner.go:74-88  extractJSON: the leftmost match of the fenced pattern,
\* else the leftmost match of the raw pattern, else the text
extractJSON(text) ==
    LET fenced == { i \in 1..Len(text) : FencedEnd(text, i) # 0 }
        raw    == { i \in 1..Len(text) : RawEnd(text, i) # 0 }
    IN  IF fenced # {}
        THEN LET i == CHOOSE a \in fenced : \A b \in fenced : a <= b
                 start == IF text[i + 1] = "j" THEN i + 2 ELSE i + 1
             IN  SubSeq(text, start, FencedEnd(text, i))
        ELSE IF raw # {}
        THEN LET i == CHOOSE a \in raw : \A b \in raw : a <= b
             IN  SubSeq(text, i, RawEnd(text, i))
        ELSE text

\* a reply that cannot be decoded is an error
ParsePlanResponseOf_FailsOnProse(tool, resp0) ==
    LET str == extractJSON(resp0) IN
    IF ~Unmarshals(str)
    THEN [plan |-> NilPlan, err |-> "invalid plan"]
    ELSE [plan |-> [isNil |-> FALSE, Tool |-> tool, Task |-> "task",
                    Summary |-> Decode(str).Summary, Files |-> Decode(str).Files],
          err |-> "none"]

\* planner.go:91-109  ParsePlanResponse(tool, task, response)
ParsePlanResponseOf(tool, resp0) ==
    LET str == extractJSON(resp0) IN
    IF ~Unmarshals(str)
    THEN [plan |-> [isNil |-> FALSE, Tool |-> tool, Task |-> "task",
                    Summary |-> resp0, Files |-> << >>],
          err |-> "none"]
    ELSE [plan |-> [isNil |-> FALSE, Tool |-> tool, Task |-> "task",
                    Summary |-> Decode(str).Summary, Files |-> Decode(str).Files],
          err |-> "none"]

\* the reply of a worker to the plan prompt has arrived
InitPlanner ==
    /\ ExecInitial
    /\ BroadcastQuiescent
    /\ RouterQuiescent
    /\ ParserQuiescent
    /\ QueryQuiescent
    /\ RendererQuiescent
    /\ planTool \in Tools
    /\ response \in Prose \cup UNION { Wrapped(pl) : pl \in Payloads }
    /\ plpc = "ready"
    /\ jsonStr = << >>
    /\ plan = NilPlan
    /\ planErr = "none"

\* planner.go:74-88  extractJSON(response)
ExtractJSONCall ==
    /\ plpc = "ready"
    /\ jsonStr' = extractJSON(response)
    /\ plpc' = "extracted"
    /\ UNCHANGED <<planTool, response, plan, planErr>>
    /\ UNCHANGED <<execVars, bvars, rvars, pvars, qvars, mvars>>

\* planner.go:91-109  ParsePlanResponse(tool, task, response)
ParsePlanResponse ==
    /\ plpc = "ready"
    /\ LET r == ParsePlanResponseOf(planTool, response) IN
          /\ plan' = r.plan
          /\ planErr' = r.err
    /\ jsonStr' = extractJSON(response)
    /\ plpc' = "parsed"
    /\ UNCHANGED <<planTool, response>>
    /\ UNCHANGED <<execVars, bvars, rvars, pvars, qvars, mvars>>

NextPlanner ==
    \/ ExtractJSONCall
    \/ ParsePlanResponse

(***************************************************************************)
(* Specifications                                                          *)
(***************************************************************************)
ExecSpec == InitExec /\ [][NextExec]_vars

BroadcastSpec == InitBroadcast /\ [][NextBroadcast]_vars

RouterSpec == InitRouter /\ [][NextRouter]_vars

ParserSpec == InitParser /\ [][NextParser]_vars

RendererSpec == InitRenderer /\ [][NextRenderer]_vars

QuerySpec == InitQuery /\ [][NextQuery]_vars

PlannerSpec == InitPlanner /\ [][NextPlanner]_vars

\* steps taken by goroutines and timers of the program itself; QueryReturn,
\* the subprocess ending on its own, is not among them
BroadcastProgress ==
    \/ BuildPrompt \/ MockSend \/ MockAdd \/ SkipTool \/ LaunchWorker
    \/ WaitWorkers \/ CancelContext \/ CloseChannel \/ ContextExpire
    \/ ConsumerExit
    \/ \E t \in Tools : \/ QueryAbort(t) \/ WorkerSend(t)
                        \/ AddMessageLoad(t) \/ AddMessageStore(t)

\* fairness the Go runtime gives: a runnable goroutine is eventually scheduled
\* and the context's timer eventually fires; a subprocess is not assumed to
\* return on its own
BroadcastFairSpec == BroadcastSpec /\ WF_vars(BroadcastProgress)

\* Broadcast with a caller that may stop receiving
NextAbandon == NextBroadcast \/ ConsumerStop

AbandonSpec == InitBroadcast /\ [][NextAbandon]_vars

\* the same fairness, and every query returns or is aborted
AbandonFairSpec ==
    /\ AbandonSpec
    /\ WF_vars(BroadcastProgress)
    /\ WF_vars(\E t \in Tools : QueryReturn(t))

(***************************************************************************)
(* Properties                                                              *)
(***************************************************************************)
Max(S) == CHOOSE x \in S : \A y \in S : y <= x

\* positions of the sink written by the given writer
WritesOf(who) == {i \in 1..Len(sink) : sink[i].who = who}

\* number of Responses the consumer has received from tool t
ReceivedFrom(t) == Cardinality({i \in 1..Len(received) : received[i].Tool = t})

\* the Response reports a subprocess that did not exit with status 0
FailedContent(r) == r.Content \in {"exitN", "spawn", "killed"}

\* C1: the writes of lineHandler (erase, line, newline) and the writes of the
\* spinner goroutine never interleave: no spinner write lands after lineHandler
\* has begun a write sequence and before it has written the newline.
C1_NoInterleavedWrites ==
    \A j \in WritesOf("spinner") :
        LET before == {i \in WritesOf("line") : i < j} IN
        before # {} => sink[Max(before)].kind = "nl"

\* C2: a line is never written while a spinner glyph is visible: the write
\* that precedes a line's text on the sink is never a spinner draw or update.
C2_NoLineOverGlyph ==
    \A j \in 1..Len(sink) :
        (sink[j].who = "line" /\ sink[j].kind = "text" /\ j > 1)
            => sink[j-1].who # "spinner"

\* C3: the channel is closed only after every launched worker goroutine has
\* delivered its Response and finished; with no available tool (non-mock) it is
\* closed with nothing launched and nothing received; and it is always
\* eventually closed.
C3_ClosedOnlyAfterAllQueries ==
    /\ [](chClosed =>
            /\ \A t \in Tools : wpc[t] \in {"none", "done"}
            /\ ~useMocks => \A t \in Tools : IsAvailable(t) => ReceivedFrom(t) = 1)
    /\ []((~useMocks /\ \A t \in Tools : ~IsAvailable(t)) =>
            /\ received = << >>
            /\ \A t \in Tools : wpc[t] = "none")
    /\ <>chClosed

C3_Witness ==
    /\ chClosed
    /\ ~useMocks
    /\ \A t \in Tools : ~IsAvailable(t)
    /\ received = << >>

\* C4: in non-mock mode, when the channel is closed the consumer has received
\* exactly one Response from each available tool and none from any other, and
\* every Response of a tool whose subprocess failed has Error set.
C4_OneResponsePerAvailableTool ==
    (chClosed /\ ~useMocks) =>
        /\ \A t \in Tools : ReceivedFrom(t) = IF IsAvailable(t) THEN 1 ELSE 0
        /\ \A i \in 1..Len(received) : FailedContent(received[i]) => received[i].Error

\* C5: while any worker query is in flight, no step changes the Session history.
C5_HistoryReadOnlyDuringQueries ==
    [][(\E u \in Tools : wpc[u] = "query") => history' = history]_vars

\* C6: a failed worker query is delivered as a Response with Error set, the
\* shared context is not cancelled while a sibling is still querying or
\* sending, and at close every available tool's Response has been delivered.
C6_WorkerErrorIsolated ==
    /\ \A i \in 1..Len(received) : FailedContent(received[i]) => received[i].Error
    /\ (\E u \in Tools : wpc[u] \in {"query", "send"}) => bctx # "cancelled"
    /\ (chClosed /\ ~useMocks) =>
          \A t \in Tools : IsAvailable(t) => ReceivedFrom(t) = 1

\* C7: once the shared context has expired every query still in flight is
\* aborted; the channel is not closed while a worker still holds an undelivered
\* Response (in particular one produced before the expiry), it is eventually
\* closed, and by then the Response of every launched worker has been received.
C7_ExpiryAbortsAndDelivers ==
    /\ (bctx = "expired") ~> (\A t \in Tools : wpc[t] # "query")
    /\ [](\A t \in Tools : wpc[t] = "send" => ~chClosed)
    /\ []((chClosed /\ ~useMocks) =>
            \A t \in Tools : IsAvailable(t) => ReceivedFrom(t) = 1)
    /\ <>chClosed

C7_Witness ==
    /\ bctx = "expired"
    /\ \E t \in Tools : wpc[t] = "send" /\ qctx[t] = "live"
    /\ \E u \in Tools : wpc[u] = "query" /\ whangs[u]

\* C8: a worker that holds its Response can hand it to the waiting consumer at
\* once, whatever the other workers are doing: Responses are not batched.
C8_ResponseSentOnCompletion ==
    \A t \in Tools : (wpc[t] = "send" /\ cpc = "recv") => ENABLED WorkerSend(t)

C8_Witness ==
    /\ Len(received) = 1
    /\ received[1].Tool = "opencode"
    /\ wpc["claude"] = "query"
    /\ wpc["codex"] = "query"

\* C9: when ExecuteCommand has returned a result, a child killed by the
\* deadline has its result classified as a timeout, and a result is classified
\* as a timeout only if the child did not exit on its own while the context
\* was still live.
C9_TimeoutIffDeadlineKill ==
    (mpc = "done" /\ ~result.isNil) =>
        /\ proc = "killed" => result.Error = "timeout"
        /\ result.Error = "timeout" => ~exitedLive

\* C10: when ExecuteCommand has returned for a child that never exits on its
\* own, what it returned is a timeout result.
C10_HungChildReturnsTimeout ==
    (mpc = "done" /\ proc # "none" /\ hangs) =>
        (~result.isNil /\ result.Error = "timeout")

\* C11: when ExecuteCommand has returned, a result with Success = true exists
\* only if the child exited with status 0, the parser reported no error and no
\* error is returned; in every other terminal state either an error is
\* returned (and no result) or the result has Success = false.
C11_SuccessOnlyOnCleanExit ==
    mpc = "done" =>
        /\ (~result.isNil /\ result.Success) =>
              /\ proc = "exited0"
              /\ ~parseErr
              /\ result.ExitCode = 0
              /\ retErr = "none"
        /\ (proc # "exited0" \/ parseErr) =>
              \/ (result.isNil /\ retErr # "none")
              \/ (~result.isNil /\ ~result.Success)

C11_Witness ==
    /\ mpc = "done"
    /\ ~result.isNil
    /\ result.Success
    /\ nlines > 0

\* C12: when ExecuteCommand has returned for an execution that failed through
\* a spawn error or a non-zero exit, a result carrying the exit code has been
\* returned to the caller.
C12_FailureStillReturnsResult ==
    (mpc = "done" /\ proc \in {"none", "exitedN"}) =>
        (~result.isNil /\ result.ExitCode # 0 /\ ~result.Success)

\* the outcome of the child process, as ExecuteCommandSimple's cmd.Run sees it
OutcomeOf(p) ==
    CASE p = "none"    -> "spawn"
      [] p = "exited0" -> "ok"
      [] p = "exitedN" -> "exitN"
      [] OTHER         -> "killed"

\* C13: for the same process outcome and the same state of the context (and no
\* parser error), what ExecuteCommand returned equals what ExecuteCommandSimple
\* returns: the same result (nil or not, Success, ExitCode, error
\* classification) and the same presence of a returned error.
C13_SimpleSameSemantics ==
    (mpc = "done" /\ ~parseErr) =>
        LET simple == ExecuteCommandSimple(OutcomeOf(proc), ectx) IN
        /\ result = simple.result
        /\ (retErr # "none") = simple.err

\* the estimates of a sequence, as a set
Range(q) == {q[i] : i \in 1..Len(q)}

\* MakeDecision has returned a decision
Decided == rpc = "decided" /\ ~decision.isNil

\* C14: in every decision MakeDecision returns, the selected estimate has
\* isAvailable = false only if the decision was forced; and an estimate whose
\* available percentage is below the availability threshold is selected only
\* in a forced decision whose forceTool names that worker.
C14_UnavailableOnlyIfForced ==
    Decided =>
        /\ ~decision.SelectedCost.IsAvailable => decision.WasForced
        /\ decision.SelectedCost.AvailablePercent < AvailabilityThreshold =>
              /\ decision.WasForced
              /\ forceTool # << >>
              /\ ValidateToolType(forceTool).toolType = decision.SelectedTool
        /\ decision.WasForced <=> forceTool # << >>

C14_Witness ==
    /\ Decided
    /\ ~decision.WasForced
    /\ \E e \in Range(estimates) : e.AvailablePercent = 2 /\ ~e.IsAvailable
    /\ \E e \in Range(estimates) : e.AvailablePercent = 2 /\ e.IsAvailable

\* C15: in every decision MakeDecision returns, forced or not, no alternative
\* has the tool type of the selected worker.
C15_AlternativesExcludeSelected ==
    Decided =>
        \A i \in 1..Len(decision.Alternatives) :
            decision.Alternatives[i].Tool # decision.SelectedTool

C15_Witness ==
    /\ Decided
    /\ ~decision.WasForced
    /\ Len(decision.Alternatives) = 2

\* the sort keys of an estimate in their priority: available first, within
\* limit first, free first, cheaper first, more capacity first
SortKey(e) ==
    <<IF e.IsAvailable THEN 0 ELSE 1,
      IF e.WillExceedLimit THEN 1 ELSE 0,
      IF e.EstimatedCost = 0 THEN 0 ELSE 1,
      e.EstimatedCost,
      0 - e.AvailablePercent>>

\* k1 comes strictly before k2 in the lexicographic order of the keys
KeyBefore(k1, k2) ==
    \E i \in 1..Len(k1) : k1[i] < k2[i] /\ \A j \in 1..(i - 1) : k1[j] = k2[j]

\* a and b hold the same estimates, each the same number of times
IsPermutation(a, b) ==
    /\ Len(a) = Len(b)
    /\ \A x \in Range(a) \cup Range(b) :
          Cardinality({i \in 1..Len(a) : a[i] = x})
              = Cardinality({i \in 1..Len(b) : b[i] = x})

\* C16: the slice SortEstimates returns is a permutation of its argument in
\* which no estimate comes after one with a strictly later key (available,
\* within limit, free, cost ascending, available percent descending); and the
\* call leaves its argument as it was.
C16_SortIsOrderedPermutation ==
    /\ [](rpc = "sorted" =>
            /\ IsPermutation(sorted, estimates)
            /\ \A i, j \in 1..Len(sorted) :
                  i < j => ~KeyBefore(SortKey(sorted[j]), SortKey(sorted[i])))
    /\ [][rpc' = "sorted" => estimates' = estimates]_vars

C16_Witness ==
    /\ rpc = "sorted"
    /\ Len(sorted) = 3
    /\ sorted[1] = estimates[3]
    /\ sorted[3] = estimates[1]
    /\ sorted[1].EstimatedCost = 0
    /\ sorted[2].EstimatedCost # 0
    /\ ~sorted[3].IsAvailable

\* C17: the comparator of SortEstimates orders any two different estimates of
\* one calculation: one of them is less than the other.
C17_ComparatorTotal ==
    rpc = "sorted" =>
        \A a, b \in Range(estimates) : a # b => (Less(a, b) \/ Less(b, a))

\* the sequences that present the estimates of q in some order
PermutationsOf(q) ==
    {[i \in 1..Len(q) |-> q[f[i]]] :
        f \in {g \in [1..Len(q) -> 1..Len(q)] :
                  \A i, j \in 1..Len(q) : i # j => g[i] # g[j]}}

\* C18: presented with the same estimates in any order, SortEstimates returns
\* the ordering it returned for them, and MakeDecision over the same trackers
\* registered in any order returns the decision it returned for them.
C18_OrderIndependent ==
    /\ rpc = "sorted" =>
          \A q \in PermutationsOf(estimates) : SortEstimates(q) = sorted
    /\ rpc = "decided" =>
          \A q \in PermutationsOf(trackers) :
              LET r == MakeDecisionOf(q, tokens, forceTool) IN
              /\ r.err = decErr
              /\ r.decision.SelectedTool = decision.SelectedTool

\* the estimates of the calculation that are available and within limit
Eligible == {e \in Range(estimates) : e.IsAvailable /\ ~e.WillExceedLimit}

C20_ExhaustionFails ==
    (/\ rpc = "decided"
     /\ forceTool = << >>
     /\ estimates # << >>
     /\ \A e \in Range(estimates) : e.AvailablePercent < AvailabilityThreshold) =>
        /\ decErr = "no tools available"
        /\ decision.isNil

C20_Witness ==
    /\ rpc = "decided"
    /\ forceTool = << >>
    /\ Len(estimates) = 3
    /\ \A e \in Range(estimates) : e.AvailablePercent < AvailabilityThreshold
    /\ \E e \in Range(estimates) : e.IsAvailable
    /\ decErr = "no tools available"

\* the forced name, lower-cased and trimmed, is the name of tool type t
Names(force, t) == ToLower(TrimSpace(force)) = ToolTypeChars[t]

\* what a forced MakeDecision must return once estimates es exist
ForcedOutcomeFor(es) ==
    /\ (\A t \in ToolTypes : ~Names(forceTool, t)) =>
          (decErr = "invalid forced tool" /\ decision.isNil)
    /\ \A t \in ToolTypes :
          Names(forceTool, t) =>
              IF \E e \in Range(es) : e.Tool = t
              THEN /\ decErr = "none"
                   /\ ~decision.isNil
                   /\ decision.WasForced
                   /\ decision.SelectedTool = t
                   /\ decision.SelectedCost \in Range(es)
                   /\ decision.SelectedCost.Tool = t
              ELSE decErr = "forced tool not found" /\ decision.isNil

\* C21 as stated: a forced MakeDecision fails with the invalid-tool error
\* whenever the name is not a known tool type after lower-casing and
\* trimming, fails with the not-found error when the name is valid and no
\* estimate exists for it, and otherwise selects the forced tool's estimate
\* among all computed estimates.
C21_ForcedValidation ==
    (rpc = "decided" /\ forceTool # << >>) =>
        ForcedOutcomeFor(CalculateCosts(trackers, tokens).estimates)

\* C21 amended: the same, provided at least one tracker yielded an estimate;
\* when none did, a forced MakeDecision returns the cost-calculation error
\* and no decision, whatever the forced name is.
C21_ForcedValidationAfterCosts ==
    (rpc = "decided" /\ forceTool # << >>) =>
        IF \A i \in 1..Len(trackers) : trackers[i].fails
        THEN decErr = "failed to calculate costs" /\ decision.isNil
        ELSE ForcedOutcomeFor(estimates)

C21_Witness ==
    /\ Decided
    /\ forceTool = <<" ","C","l","a","u","d","e","-","C","o","d","e">>
    /\ decision.SelectedTool = ClaudeCodeTool
    /\ ~decision.SelectedCost.IsAvailable
    /\ FilterAvailable(estimates) # << >>

\* C22: a forced MakeDecision whose forced name has an estimate succeeds even
\* when that worker is unavailable or over its limit: the decision has
\* wasForced = true and selects that estimate, and its reason carries the
\* low-availability warning exactly when isAvailable is false and the
\* exceed-limit warning exactly when willExceedLimit is true.
C22_ForcedEscapeHatch ==
    (rpc = "decided" /\ forceTool # << >>) =>
        \A e \in Range(estimates) :
            Names(forceTool, e.Tool) =>
                /\ decErr = "none"
                /\ ~decision.isNil
                /\ decision.WasForced
                /\ decision.SelectedCost = e
                /\ ("low availability" \in Range(decision.Reason)) <=> ~e.IsAvailable
                /\ ("may exceed limits" \in Range(decision.Reason)) <=> e.WillExceedLimit

C22_Witness ==
    /\ Decided
    /\ decision.WasForced
    /\ decision.SelectedCost.IsAvailable
    /\ decision.SelectedCost.WillExceedLimit
    /\ decision.Reason = <<"forced", "may exceed limits">>
    /\ \E e \in Range(decision.Alternatives) : e.IsAvailable /\ ~e.WillExceedLimit

\* the trackers none of whose calls fails, in their order
Answering == SelectSeq(trackers, LAMBDA tr : ~tr.fails)

RecognizedTypes(variant) ==
    IF variant = "claude" THEN {"stream_event", "assistant", "result"}
    ELSE {"delta", "message", "item.completed", "item.started", "result", "error"}

\* a transport line that is malformed or that the variant does not recognize
Unrecognized(line, variant) ==
    \/ line.kind \in {"malformed", "notype"}
    \/ /\ line.kind = "event"
       /\ \/ line.type \notin RecognizedTypes(variant)
          \/ line.type = "stream_event" /\ line.sub # "text_delta"

\* C25: for both parser variants, a transport line that is malformed or
\* unrecognized changes neither the accumulated output, nor the line buffer,
\* nor the callback lines, and produces no error.
C25_MalformedLineIgnored ==
    [][(nscanned' = nscanned + 1 /\ Unrecognized(pline', pvariant)) =>
          /\ fullOutput' = fullOutput
          /\ lineBuffer' = lineBuffer
          /\ onLineCalls' = onLineCalls
          /\ pErr' = "none"]_vars

RECURSIVE JoinLines(_)
\* strings.Join(lines, "\n")
JoinLines(lines) ==
    IF lines = << >> THEN << >>
    ELSE IF Len(lines) = 1 THEN lines[1]
    ELSE lines[1] \o <<NL>> \o JoinLines(Tail(lines))

\* C26: when Parse has returned without error, the lines handed to the
\* callback, joined by newlines, are the returned full text.
C26_CallbackLinesAreFullText ==
    (ppc = "done" /\ pErr = "none") => JoinLines(onLineCalls) = pRet

\* C27: at end of stream without read error, a non-empty line buffer is handed
\* to the callback once, as the last call, and appended to the full text, which
\* is what Parse returns; the line buffer is empty afterwards and no call of
\* the callback follows.
C27_ResidualFlushedAtEOF ==
    /\ [][(ppc = "scanning" /\ ppc' = "done" /\ pErr' = "none") =>
            /\ lineBuffer' = << >>
            /\ pRet' = fullOutput'
            /\ IF lineBuffer # << >>
               THEN /\ onLineCalls' = Append(onLineCalls, lineBuffer)
                    /\ fullOutput' = fullOutput \o lineBuffer
               ELSE /\ onLineCalls' = onLineCalls
                    /\ fullOutput' = fullOutput]_vars
    /\ [][ppc = "done" => onLineCalls' = onLineCalls]_vars

C27_Witness ==
    /\ ppc = "done"
    /\ pErr = "none"
    /\ onLineCalls = << <<"b">>, <<"a">> >>
    /\ pRet = <<"b", NL, "a">>
    /\ lineBuffer = << >>

\* C28: when Parse returns an error, the text parsed so far is returned with
\* it.
C28_PartialTextWithError ==
    (ppc = "done" /\ pErr # "none") => pRet = fullOutput

\* C29: no mutex is held while a line is written to the output sink on the
\* streaming path: at every write of a line to os.Stderr the renderer's mutex
\* is free.
C29_NoLockAcrossSinkWrite ==
    [][Len(stderrLines') > Len(stderrLines) => smrMu = "free"]_vars

\* C30: a Query outside mock mode for a tool that is unavailable or not in the
\* availability map returns a Response with Error set and no content, calls no
\* delegator and leaves the Session history as it was; a Query in mock mode
\* returns a Response with content and no error whatever the availability of
\* the tool.
C30_QueryHonoursAvailability ==
    [][nqueries' = nqueries + 1 =>
          IF useMocks
          THEN ~qresp'.Error /\ qresp'.Content # "" /\ qresp'.Tool = qtool'
          ELSE (\A t \in Tools : t = qtool' => availableTools[t] \in {"no", "absent"}) =>
                  /\ qresp'.Error
                  /\ qresp'.Content = ""
                  /\ qresp'.Tool = qtool'
                  /\ ~qinvoked'
                  /\ history' = history]_vars

C30_Witness ==
    /\ nqueries = 2
    /\ ~useMocks
    /\ qtool = "codex"
    /\ availableTools["codex"] = "no"
    /\ qresp.Error
    /\ history = <<"user", "claude">>

\* C33: after an unforced MakeDecision, every estimate whose available
\* percentage lies in [5, 10) has isAvailable = true and willExceedLimit = true
\* and is not the selected one; and when every estimate lies below 10 the
\* decision fails with "no tools available".
C33_NearLimitAvailableButExcluded ==
    (rpc = "decided" /\ forceTool = << >>) =>
        /\ \A e \in Range(estimates) :
              (e.AvailablePercent >= AvailabilityThreshold /\ e.AvailablePercent < 10) =>
                  /\ e.IsAvailable
                  /\ e.WillExceedLimit
                  /\ ~decision.isNil => decision.SelectedCost # e
        /\ (estimates # << >> /\ \A e \in Range(estimates) : e.AvailablePercent < 10) =>
              (decErr = "no tools available" /\ decision.isNil)

\* the tools of the Responses delivered without error, in delivery order
RECURSIVE DeliveredOk(_)
DeliveredOk(rs) ==
    IF rs = << >> THEN << >>
    ELSE (IF rs[1].Error THEN << >> ELSE <<rs[1].Tool>>) \o DeliveredOk(Tail(rs))

\* the history is h0 followed by n more messages
GrownBy(h0, n) ==
    /\ Len(history) = Len(h0) + n
    /\ SubSeq(history, 1, Len(h0)) = h0

\* C34: when the channel is closed, the Session history is the history at
\* broadcast start followed by exactly one message per Response delivered
\* without error, and by none for a Response with Error set.
C34_HistoryGrowsOnePerSuccess ==
    chClosed => \E h0 \in InitialHistories : GrownBy(h0, Len(DeliveredOk(received)))

\* C35: when the channel is closed and no message was lost, the messages
\* appended to the Session history during the broadcast are in the order in
\* which the corresponding Responses were delivered.
C35_HistoryOrderIsDeliveryOrder ==
    \A h0 \in InitialHistories :
        (chClosed /\ GrownBy(h0, Len(DeliveredOk(received)))) =>
            SubSeq(history, Len(h0) + 1, Len(history)) = DeliveredOk(received)

\* C36: every worker goroutine and the goroutine that closes the channel
\* eventually terminate, also when the caller stops receiving before the
\* channel is closed.
C36_GoroutinesTerminate ==
    <>(bpc = "closed" /\ \A t \in Tools : wpc[t] \in {"none", "done"})

\* C37: the Response delivered for a worker whose subprocess exited non-zero or
\* was killed by the deadline has Error set, and that worker appends nothing to
\* the Session history.
C37_FailedSubprocessIsError ==
    /\ \A i \in 1..Len(received) :
          received[i].Content \in {"exitN", "killed"} => received[i].Error
    /\ \A t \in Tools :
          (resp[t].Content \in {"exitN", "killed"}) => resp[t].Error

\* C38: when ExecuteCommand has returned from an execution whose child was
\* started, the idle-spinner goroutine has left its loop.
C38_SpinnerGoroutineEnds ==
    (mpc = "done" /\ proc # "none") => tpc = "done"

\* C39: once ExecuteCommand has performed its final spinner clean-up
\* (delegator.go:223-226), the spinner goroutine writes nothing more to the
\* sink.
C39_NoDrawAfterCleanup ==
    [][(mpc \in {"cmdwait", "build", "done"} /\ Len(sink') > Len(sink)) =>
          sink'[Len(sink')].who # "spinner"]_vars

RECURSIVE Concat(_)
\* the concatenation of a sequence of strings
Concat(strs) == IF strs = << >> THEN << >> ELSE strs[1] \o Concat(Tail(strs))

\* the text a full "assistant" or "result" event carries
FullText(line) == IF line.type = "result" THEN line.text ELSE Concat(line.items)

\* C40: in the default StreamParser, when a text was delivered by a delta event
\* and the next event is the full "assistant" or "result" event carrying the
\* same text, that event adds nothing to the callback lines, to the full text
\* or to the line buffer.
C40_FullEventNotDuplicated ==
    [][(/\ pvariant = "claude"
        /\ nscanned = 1 /\ nscanned' = 2
        /\ pline.type = "stream_event" /\ pline.sub = "text_delta"
        /\ pline'.kind = "event" /\ pline'.type \in {"assistant", "result"}
        /\ FullText(pline') = pline.text) =>
          /\ onLineCalls' = onLineCalls
          /\ fullOutput' = fullOutput
          /\ lineBuffer' = lineBuffer]_vars

RECURSIVE MatchingEnd(_, _, _)
\* the index of the brace that closes the block open at depth `depth' before i
MatchingEnd(str, i, depth) ==
    IF i > Len(str) THEN 0
    ELSE IF str[i] = "{" THEN MatchingEnd(str, i + 1, depth + 1)
    ELSE IF str[i] = "}" THEN (IF depth = 1 THEN i ELSE MatchingEnd(str, i + 1, depth - 1))
    ELSE MatchingEnd(str, i + 1, depth)

\* the block from the first opening brace of str to the brace that balances it
OutermostBlock(str) ==
    LET start == SkipPlain(str, 1) IN
    IF start > Len(str) \/ str[start] # "{" \/ MatchingEnd(str, start + 1, 1) = 0
    THEN << >>
    ELSE SubSeq(str, start, MatchingEnd(str, start + 1, 1))

\* C31: whenever the text taken from the reply of a worker cannot be decoded
\* (plain prose, prose with braces, a truncated object), ParsePlanResponse
\* returns no error and a Plan whose summary is the raw reply and whose files
\* list is empty; it returns no error for any reply.
C31_PlanDegradesGracefully ==
    plpc = "parsed" =>
        /\ planErr = "none"
        /\ ~plan.isNil
        /\ plan.Tool = planTool
        /\ ~Unmarshals(jsonStr) => (plan.Summary = response /\ plan.Files = << >>)

\* a reply of prose around an undecodable brace block has been parsed into the
\* raw-text plan
C31_Witness ==
    /\ plpc = "parsed"
    /\ response = <<"x", "{", "x", "}">>
    /\ jsonStr = <<"{", "x", "}">>
    /\ planErr = "none"
    /\ plan.Summary = response
    /\ plan.Files = << >>

\* C32: for a reply that wraps a payload in prose or a fence, the text handed
\* to the decoder is the outermost balanced brace block of the reply, whatever
\* the nesting depth of the payload.
C32_DecoderGetsOutermostBlock ==
    (plpc \in {"extracted", "parsed"} /\ \E pl \in Payloads : response \in Wrapped(pl))
        => jsonStr = OutermostBlock(response)
====
